---------------------------- MODULE Spec2Model ----------------------------
(***************************************************************************)
(* A model of go-termfmt (github.com/yildizm/go-termfmt): the layout       *)
(* components of components.go and the generic formatter of terminal.go.  *)
(*                                                                         *)
(* Strings are sequences of glyphs (an ASCII character as itself, another  *)
(* glyph by its code point), so that the output of a component can be      *)
(* counted and compared glyph by glyph.  Go's len() counts the bytes of a   *)
(* string in UTF-8, which GoLen gives; for ASCII it is the glyph count.    *)
(*                                                                         *)
(* A call either returns ([kind |-> "ok", out |-> <glyphs>]) or aborts     *)
(* with a run-time panic ([kind |-> "panic"]): strings.Repeat panics on a  *)
(* negative count, an index out of range panics.                           *)
(***************************************************************************)
EXTENDS Integers, Sequences, FiniteSets, TLC

VARIABLES
    call,      \* the operation being called and its arguments
    result,    \* the outcome of the latest call ("pending" before it ran)
    prev,      \* the outcome of the call before it, with the same arguments
    calls,     \* how many times the operation was called with these arguments
    stack,     \* Format: the frames of structToTreeItems, innermost last
    env,       \* the process environment that the capability checks read
    objects    \* what the caller holds by reference: the TerminalOptions
               \* objects by address, the formatter, slices, maps and items

vars == <<call, result, prev, calls, stack, env, objects>>

----------------------------------------------------------------------------
(* Bounds of the model.                                                    *)

\* ProgressBar: total ranges over -1..MaxTotal, current over -2..MaxTotal+1.
MaxTotal == 22
\* ProgressBar and BarChart: the track is at most MaxTrack glyphs wide.
MaxTrack == 22
\* ProgressBar and BarChart: widths start MaxDeficit columns below the
\* reserved columns.
MaxDeficit == 2
\* BarChart: values range over 0..MaxValue.
MaxValue == 22
\* An operation is called at most MaxCalls times on the same arguments.
MaxCalls == 2
\* Table: at most MaxCols headers, and at most MaxCols cells in a row.
MaxCols == 2
\* Table: at most MaxRows rows.
MaxRows == 2
\* Box: a title has at most MaxTitle glyphs.
MaxTitle == 2
\* Box: a content has at most MaxContent glyphs, line breaks included.
MaxContent == 5
\* CreateConfidenceBar: the ratios n / d have |n| <= MaxConfNum and
\* 1 <= d <= MaxConfDen.
MaxConfNum == 12
MaxConfDen == 8
\* TreeView: a forest has at most MaxTreeNodes nodes.
MaxTreeNodes == 5
\* styles of one Stylize call
MaxStyles == 2
\* TerminalOptions objects alive in one sequence of calls
MaxObjects == 3
\* Format: a slice holds at most MaxItems items.
MaxItems == 2
\* Format: the heap holds MaxNodes structs.
MaxNodes == 2
\* Format: the goroutine stack holds StackLimit frames of
\* structToTreeItems; the Go runtime ends the process with "fatal error:
\* stack overflow" when a call needs one more.
StackLimit == 66

----------------------------------------------------------------------------
(* Program constants.                                                      *)

borderPadding == 2
labelSpacing == 10
progressSpacing == 20
tableRowPadding == 2
percentMultiplier == 100
DefaultTerminalWidth == 80
ConfidenceBarLength == 10
MaxFieldLength == 50

\* formatter.go: DefaultOptions
DefaultOptions_Plain ==
    [Color |-> FALSE, Emoji |-> TRUE, Width |-> DefaultTerminalWidth,
     Compact |-> FALSE, ShowIcons |-> TRUE]
DefaultOptions ==
    [Color |-> TRUE, Emoji |-> TRUE, Width |-> DefaultTerminalWidth,
     Compact |-> FALSE, ShowIcons |-> TRUE]

----------------------------------------------------------------------------
(* Outcomes of a call.                                                     *)

Pending == [kind |-> "pending", out |-> <<>>]
Ok(s) == [kind |-> "ok", out |-> s]
Panic == [kind |-> "panic", out |-> <<>>]

----------------------------------------------------------------------------
(* Strings.                                                                *)

Min(a, b) == IF a <= b THEN a ELSE b
Max(a, b) == IF a >= b THEN a ELSE b
Abs(n) == IF n < 0 THEN -n ELSE n

\* The glyphs outside ASCII, each named by its code point.
FullBlock == "U+2588"
LightShade == "U+2591"
LightVertical == "U+2502"
LightHorizontal == "U+2500"
LightVerticalRight == "U+251C"
LightVerticalLeft == "U+2524"
LightCross == "U+253C"
LightUpRight == "U+2514"
LightDownRight == "U+250C"
LightDownLeft == "U+2510"
LightUpLeft == "U+2518"
DoubleHorizontal == "U+2550"
DoubleVertical == "U+2551"
DoubleDownRight == "U+2554"
DoubleDownLeft == "U+2557"
DoubleUpRight == "U+255A"
DoubleUpLeft == "U+255D"
DoubleVerticalRight == "U+2560"
DoubleVerticalLeft == "U+2563"
\* e with acute accent: one glyph that UTF-8 encodes in two bytes
EAcute == "U+00E9"

\* Go's len(s), the number of bytes of s in UTF-8: ASCII takes one byte,
\* EAcute two, a glyph of the basic plane from U+0800 three, another four.
ThreeByteGlyphs ==
    {FullBlock, LightShade, LightVertical, LightHorizontal,
     LightVerticalRight, LightVerticalLeft, LightCross,
     LightUpRight, LightDownRight, LightDownLeft,
     LightUpLeft, DoubleHorizontal, DoubleVertical,
     DoubleDownRight, DoubleDownLeft, DoubleUpRight,
     DoubleUpLeft, DoubleVerticalRight, DoubleVerticalLeft,
     "U+2139", "U+23F0", "U+2696", "U+26A0", "U+2705", "U+274C", "U+2753",
     "U+FE0F"}
FourByteGlyphs ==
    {"U+1F3AF", "U+1F3F7", "U+1F4A1", "U+1F4CA", "U+1F4CB", "U+1F4DD",
     "U+1F50D", "U+1F512", "U+1F522", "U+1F534", "U+1F680", "U+1F6AA",
     "U+1F7E1", "U+1F9E0"}
GoLen(s) ==
    Len(s) + Cardinality({i \in DOMAIN s : s[i] = EAcute})
           + 2 * Cardinality({i \in DOMAIN s : s[i] \in ThreeByteGlyphs})
           + 3 * Cardinality({i \in DOMAIN s : s[i] \in FourByteGlyphs})

\* strings.Split(s, sep) for a separator of one glyph: the runs of s
\* between the occurrences of sep (one more than there are occurrences).
Split(s, sep) ==
    LET at == {i \in DOMAIN s : s[i] = sep}
        pos == [k \in 0..(Cardinality(at) + 1) |->
                   IF k = 0 THEN 0
                   ELSE IF k = Cardinality(at) + 1 THEN Len(s) + 1
                   ELSE CHOOSE i \in at : Cardinality({j \in at : j < i}) = k - 1]
    IN  [k \in 1..(Cardinality(at) + 1) |-> SubSeq(s, pos[k - 1] + 1, pos[k] - 1)]

\* strings.Repeat(glyph, count) for count >= 0; the callers test
\* RepeatPanics(count) first.
Repeat(glyph, count) == [i \in 1..count |-> glyph]
RepeatPanics(count) == count < 0

Digit(d) == CASE d = 0 -> "0" [] d = 1 -> "1" [] d = 2 -> "2" [] d = 3 -> "3"
              [] d = 4 -> "4" [] d = 5 -> "5" [] d = 6 -> "6" [] d = 7 -> "7"
              [] d = 8 -> "8" [] d = 9 -> "9"

RECURSIVE NatToChars(_)
NatToChars(n) == IF n < 10 THEN <<Digit(n)>>
                 ELSE NatToChars(n \div 10) \o <<Digit(n % 10)>>

\* fmt's %d
IntToChars(n) == IF n < 0 THEN <<"-">> \o NatToChars(-n) ELSE NatToChars(n)

----------------------------------------------------------------------------
(* The style engine (src/unnamed/part_001).  An escape sequence is one     *)
(* glyph, named "ESC[<code>m".                                             *)

Reset == "ESC[0m"
Bold == "ESC[1m"
Dim == "ESC[2m"
Italic == "ESC[3m"
Red == "ESC[31m"
Green == "ESC[32m"
Yellow == "ESC[33m"
Blue == "ESC[34m"
Magenta == "ESC[35m"
Cyan == "ESC[36m"
White == "ESC[37m"
BrightBlack == "ESC[90m"

DefaultColorProfile ==
    [Error |-> Red, Warning |-> Yellow, Info |-> Blue, Success |-> Green,
     Accent |-> Cyan, Muted |-> BrightBlack]

\* s occurs in t as a run of consecutive glyphs: strings.Contains(t, s)
Occurs(s, t) ==
    \E i \in 0..(Len(t) - Len(s)) : SubSeq(t, i + 1, i + Len(s)) = s

ColorTerms ==
    {<<"x", "t", "e", "r", "m">>,
     <<"x", "t", "e", "r", "m", "-", "2", "5", "6", "c", "o", "l", "o", "r">>,
     <<"x", "t", "e", "r", "m", "-", "c", "o", "l", "o", "r">>,
     <<"s", "c", "r", "e", "e", "n">>,
     <<"s", "c", "r", "e", "e", "n", "-", "2", "5", "6", "c", "o", "l", "o", "r">>,
     <<"t", "m", "u", "x">>,
     <<"t", "m", "u", "x", "-", "2", "5", "6", "c", "o", "l", "o", "r">>,
     <<"r", "x", "v", "t">>,
     <<"r", "x", "v", "t", "-", "u", "n", "i", "c", "o", "d", "e">>,
     <<"l", "i", "n", "u", "x">>,
     <<"a", "n", "s", "i">>}

supportsColor(e) ==
    IF e.TERM = <<>> THEN FALSE
    ELSE IF \E t \in ColorTerms : Occurs(t, e.TERM) THEN TRUE
    ELSE IF e.NO_COLOR # <<>> THEN FALSE
    ELSE IF e.FORCE_COLOR # <<>> THEN TRUE
    ELSE FALSE

\* supportsEmoji, lines 252-265
supportsEmoji(e) ==
    IF Occurs(<<"2", "5", "6", "c", "o", "l", "o", "r">>, e.TERM) THEN TRUE
    ELSE IF e.TERM_PROGRAM # <<>> THEN TRUE
    ELSE FALSE

\* The environments: TERM unset, a colour terminal with and without 256
\* colours and a terminal not on the list, and each of NO_COLOR,
\* FORCE_COLOR and TERM_PROGRAM unset or set.
Environments ==
    [TERM : {<<>>, <<"x", "t", "e", "r", "m">>,
             <<"x", "t", "e", "r", "m", "-", "2", "5", "6", "c", "o", "l", "o", "r">>,
             <<"d", "u", "m", "b">>},
     NO_COLOR : {<<>>, <<"1">>},
     FORCE_COLOR : {<<>>, <<"1">>},
     TERM_PROGRAM : {<<>>, <<"v", "s", "c", "o", "d", "e">>}]

\* Two environments: a colour terminal, and one with no TERM set.
ColorTerminal ==
    [TERM |-> <<"x", "t", "e", "r", "m">>, NO_COLOR |-> <<>>,
     FORCE_COLOR |-> <<>>, TERM_PROGRAM |-> <<>>]
PlainTerminal ==
    [TERM |-> <<>>, NO_COLOR |-> <<>>, FORCE_COLOR |-> <<>>, TERM_PROGRAM |-> <<>>]

StyleCode(style) ==
    CASE style = "bold" -> <<Bold>>
      [] style = "dim" -> <<Dim>>
      [] style = "italic" -> <<Italic>>
      [] style = "red" -> <<Red>>
      [] style = "green" -> <<Green>>
      [] style = "yellow" -> <<Yellow>>
      [] style = "blue" -> <<Blue>>
      [] style = "magenta" -> <<Magenta>>
      [] style = "cyan" -> <<Cyan>>
      [] style = "white" -> <<White>>
      [] OTHER -> <<>>

\* The strings of ss written one after the other (halving keeps the
\* recursion shallow for long sequences).
RECURSIVE FlattenRange(_, _, _)
FlattenRange(ss, lo, hi) ==
    IF lo > hi THEN <<>>
    ELSE IF lo = hi THEN ss[lo]
    ELSE FlattenRange(ss, lo, (lo + hi) \div 2)
             \o FlattenRange(ss, (lo + hi) \div 2 + 1, hi)

Flatten(ss) == FlattenRange(ss, 1, Len(ss))

Stylize(text, styles, opts, e) ==
    IF ~opts.Color \/ ~supportsColor(e) THEN text
    ELSE LET codes == Flatten([i \in DOMAIN styles |-> StyleCode(styles[i])])
         IN  IF Len(codes) = 0 THEN text ELSE codes \o text \o <<Reset>>

Header(title, opts, e) ==
    IF opts.Color /\ supportsColor(e) THEN Stylize(title, <<"bold", "cyan">>, opts, e)
    ELSE title

Muted(text, opts, e) ==
    IF opts.Color /\ supportsColor(e) THEN Stylize(text, <<"dim">>, opts, e)
    ELSE text

Success(text, opts, e) ==
    IF opts.Color /\ supportsColor(e) THEN Stylize(text, <<"green">>, opts, e)
    ELSE text

ColorizeWithProfile(text, colorType, profile, opts, e) ==
    IF ~opts.Color \/ ~supportsColor(e) THEN text
    ELSE IF colorType \in {"error", "warning", "info", "success", "accent", "muted"}
    THEN <<CASE colorType = "error" -> profile.Error
             [] colorType = "warning" -> profile.Warning
             [] colorType = "info" -> profile.Info
             [] colorType = "success" -> profile.Success
             [] colorType = "accent" -> profile.Accent
             [] colorType = "muted" -> profile.Muted>> \o text \o <<Reset>>
    ELSE text

Colorize_AnyOptions(text, color, opts, e) ==
    IF ~supportsColor(e) THEN text ELSE color \o text \o <<Reset>>
Colorize(text, color, opts, e) ==
    IF ~opts.Color \/ ~supportsColor(e) THEN text
    ELSE color \o text \o <<Reset>>

Subtitle(title, opts, e) ==
    IF opts.Color /\ supportsColor(e) THEN Stylize(title, <<"bold">>, opts, e)
    ELSE title

Warning(text, opts, e) ==
    IF opts.Color /\ supportsColor(e) THEN Stylize(text, <<"yellow">>, opts, e)
    ELSE text

Error(text, opts, e) ==
    IF opts.Color /\ supportsColor(e) THEN Stylize(text, <<"red">>, opts, e)
    ELSE text

Info(text, opts, e) ==
    IF opts.Color /\ supportsColor(e) THEN Stylize(text, <<"blue">>, opts, e)
    ELSE text

\* The symbol table: key |-> <<emoji, fallback>>.  A key is a TLA+ string,
\* the code only looking it up.
getEmojiMap ==
    "error" :> <<<<"U+274C">>, <<"[", "E", "R", "R", "]">>>>
    @@ "warning" :> <<<<"U+26A0", "U+FE0F">>, <<"[", "W", "R", "N", "]">>>>
    @@ "info" :> <<<<"U+2139", "U+FE0F">>, <<"[", "I", "N", "F", "]">>>>
    @@ "success" :> <<<<"U+2705">>, <<"[", "O", "K", "]">>>>
    @@ "insight" :> <<<<"U+1F4A1">>, <<"[", "I", "N", "S", "]">>>>
    @@ "pattern" :> <<<<"U+1F50D">>, <<"[", "P", "A", "T", "]">>>>
    @@ "statistics" :> <<<<"U+1F4CA">>, <<"[", "S", "T", "A", "T", "S", "]">>>>
    @@ "recommendations" :> <<<<"U+1F4CB">>, <<"[", "R", "E", "C", "]">>>>
    @@ "rocket" :> <<<<"U+1F680">>, <<"[", "L", "O", "G", "]">>>>
    @@ "error_pattern" :> <<<<"U+1F534">>, <<"[", "E", "R", "R", "]">>>>
    @@ "anomaly_pattern" :> <<<<"U+1F7E1">>, <<"[", "A", "N", "O", "]">>>>
    @@ "perf_pattern" :> <<<<"U+26A0", "U+FE0F">>, <<"[", "P", "R", "F", "]">>>>
    @@ "security_pattern" :> <<<<"U+1F512">>, <<"[", "S", "E", "C", "]">>>>
    @@ "help" :> <<<<"U+2753">>, <<"[", "?", "]">>>>
    @@ "target" :> <<<<"U+1F3AF">>, <<"[", ">", "]">>>>
    @@ "brain" :> <<<<"U+1F9E0">>, <<"[", "A", "I", "]">>>>
    @@ "tag" :> <<<<"U+1F3F7", "U+FE0F">>, <<"[", "T", "A", "G", "]">>>>
    @@ "scale" :> <<<<"U+2696", "U+FE0F">>, <<"[", "B", "A", "L", "]">>>>
    @@ "door" :> <<<<"U+1F6AA">>, <<"[", "E", "X", "I", "T", "]">>>>
    @@ "number" :> <<<<"U+1F522">>, <<"[", "#", "]">>>>
    @@ "patterns" :> <<<<"U+1F50D">>, <<"[", "P", "A", "T", "]">>>>
    @@ "insights" :> <<<<"U+1F4A1">>, <<"[", "I", "N", "S", "]">>>>
    @@ "clock" :> <<<<"U+23F0">>, <<"[", "T", "I", "M", "E", "]">>>>
    @@ "chart" :> <<<<"U+1F4CA">>, <<"[", "C", "H", "A", "R", "T", "]">>>>
    @@ "list" :> <<<<"U+1F4DD">>, <<"[", "L", "I", "S", "T", "]">>>>

GetEmoji_OptionOnly(key, opts, e) ==
    IF key \in DOMAIN getEmojiMap
    THEN IF ~opts.Emoji THEN getEmojiMap[key][2] ELSE getEmojiMap[key][1]
    ELSE <<"[", "?", "]">>
GetEmoji(key, opts, e) ==
    IF key \in DOMAIN getEmojiMap
    THEN IF ~opts.Emoji THEN getEmojiMap[key][2]
         ELSE IF ~supportsEmoji(e) THEN getEmojiMap[key][2]
         ELSE getEmojiMap[key][1]
    ELSE <<"[", "?", "]">>

GetSymbol(key, opts, e) == GetEmoji(key, opts, e)

----------------------------------------------------------------------------
(* float64 arithmetic (IEEE 754 binary64, round to nearest, ties to even). *)
(* A float is [sign, mant, exp]: mant is the 53-bit significand as four    *)
(* limbs <<l1, l2, l3, l4>>, l1 holding its top 5 bits (16 <= l1 < 32) and *)
(* l2, l3, l4 16 bits each, and the value is                               *)
(*     sign * (l1 * 2^48 + l2 * 2^32 + l3 * 2^16 + l4) * 2^exp;            *)
(* zero has mant = <<>>.  The integers converted by float64(n) are far     *)
(* below 2^53, so the conversion is exact and an operation on float64(n)   *)
(* is given the integer n itself.                                          *)

Limb == 65536
TopMin == 16
MantBits == 53

FZero(sign) == [sign |-> sign, mant |-> <<>>, exp |-> 0]
FOne == [sign |-> 1, mant |-> <<TopMin, 0, 0, 0>>, exp |-> 1 - MantBits]

\* The number of bits of n > 0.
BitLen(n) == CHOOSE k \in 1..31 : n < 2^k /\ (k = 1 \/ n >= 2^(k - 1))

\* mant + 1
MantInc(m) ==
    IF m[4] + 1 < Limb THEN <<m[1], m[2], m[3], m[4] + 1>>
    ELSE IF m[3] + 1 < Limb THEN <<m[1], m[2], m[3] + 1, 0>>
    ELSE IF m[2] + 1 < Limb THEN <<m[1], m[2] + 1, 0, 0>>
    ELSE <<m[1] + 1, 0, 0, 0>>

\* The float nearest to sign * (p + tail) * 2^exp, where p is four limbs
\* whose top limb p[1] >= 16 may exceed 5 bits, and tail says where the
\* part of the exact value below p's last bit lies: "zero", "below" (less
\* than half a unit), "half" or "above".
RoundLimbs(sign, p, exp, tail) ==
    LET s == BitLen(p[1]) - 5               \* bits to drop
        d == 2^s
        u == Limb \div d
        keep == <<p[1] \div d,
                  (p[1] % d) * u + p[2] \div d,
                  (p[2] % d) * u + p[3] \div d,
                  (p[3] % d) * u + p[4] \div d>>
        low == p[4] % d
        frac == IF s = 0 THEN tail
                ELSE IF 2 * low > d THEN "above"
                ELSE IF 2 * low = d THEN (IF tail = "zero" THEN "half" ELSE "above")
                ELSE IF low = 0 /\ tail = "zero" THEN "zero"
                ELSE "below"
        up == frac = "above" \/ (frac = "half" /\ keep[4] % 2 = 1)
        inc == MantInc(keep)
    IN  IF ~up THEN [sign |-> sign, mant |-> keep, exp |-> exp + s]
        ELSE IF inc[1] = 2 * TopMin
        THEN [sign |-> sign, mant |-> <<TopMin, 0, 0, 0>>, exp |-> exp + s + 1]
        ELSE [sign |-> sign, mant |-> inc, exp |-> exp + s]

\* n / d = (n' / d') * 2^e with 16 d' <= n' < 32 d': [n', d', e].
RECURSIVE Scale(_, _, _)
Scale(n, d, e) == IF n < TopMin * d THEN Scale(2 * n, d, e - 1)
                  ELSE IF n >= 2 * TopMin * d THEN Scale(n, 2 * d, e + 1)
                  ELSE [n |-> n, d |-> d, e |-> e]

\* float64(a) / float64(b), b # 0: long division, a limb at a time.
FDiv(a, b) ==
    LET sign == IF (a < 0) # (b < 0) THEN -1 ELSE 1
    IN  IF a = 0 THEN FZero(sign)
        ELSE LET s == Scale(Abs(a), Abs(b), 0)
                 r1 == s.n % s.d
                 r2 == (r1 * Limb) % s.d
                 r3 == (r2 * Limb) % s.d
                 r4 == (r3 * Limb) % s.d
                 tail == IF r4 = 0 THEN "zero"
                         ELSE IF 2 * r4 < s.d THEN "below"
                         ELSE IF 2 * r4 = s.d THEN "half"
                         ELSE "above"
             IN  RoundLimbs(sign,
                            <<s.n \div s.d, (r1 * Limb) \div s.d,
                              (r2 * Limb) \div s.d, (r3 * Limb) \div s.d>>,
                            s.e - 48, tail)

\* mant * w for an integer 0 < w < 2^14, as four limbs (the top one wide).
MulLimbs(m, w) ==
    LET c4 == m[4] * w
        c3 == m[3] * w + c4 \div Limb
        c2 == m[2] * w + c3 \div Limb
        c1 == m[1] * w + c2 \div Limb
    IN  <<c1, c2 % Limb, c3 % Limb, c4 % Limb>>

\* f * float64(w)
FMulInt(f, w) ==
    LET sign == IF w < 0 THEN -f.sign ELSE f.sign
    IN  IF f.mant = <<>> \/ w = 0 THEN FZero(sign)
        ELSE RoundLimbs(sign, MulLimbs(f.mant, Abs(w)), f.exp, "zero")

\* f > 1.0
FGreaterThanOne(f) ==
    /\ f.mant # <<>>
    /\ f.sign = 1
    /\ \/ f.exp > 1 - MantBits
       \/ f.exp = 1 - MantBits /\ f.mant # <<TopMin, 0, 0, 0>>

\* int(f): the integer part, toward zero (of at most 21 bits here)
FToInt(f) ==
    LET n == MantBits + f.exp      \* bits of the integer part
    IN  IF f.mant = <<>> \/ n <= 0 THEN 0
        ELSE f.sign * ((f.mant[1] * Limb + f.mant[2]) \div 2^(21 - n))

\* |f| * 10 rounded to the nearest integer, ties to even: the digits that
\* %.1f prints (|f| * 10 < 2^16 here)
FTenths(f) ==
    IF f.mant = <<>> THEN 0
    ELSE LET p == MulLimbs(f.mant, 10)
             h == p[1] * Limb + p[2]
             k == -f.exp - 32       \* |f| * 10 = (h + low / 2^32) / 2^k
         IN  IF k > 26 THEN 0
             ELSE LET d == 2^k
                      q == h \div d
                      r == h % d
                      lowZero == p[3] = 0 /\ p[4] = 0
                      frac == IF k = 0
                              THEN (IF 2 * p[3] > Limb \/ (2 * p[3] = Limb /\ p[4] > 0)
                                    THEN "above"
                                    ELSE IF 2 * p[3] = Limb THEN "half"
                                    ELSE "below")
                              ELSE IF 2 * r > d THEN "above"
                              ELSE IF 2 * r = d THEN (IF lowZero THEN "half" ELSE "above")
                              ELSE "below"
                  IN  IF frac = "above" \/ (frac = "half" /\ q % 2 = 1)
                      THEN q + 1 ELSE q

\* fmt's %.1f
FormatFloat1(f) ==
    LET t == FTenths(f)
    IN  (IF f.sign < 0 THEN <<"-">> ELSE <<>>)
        \o NatToChars(t \div 10) \o <<".">> \o NatToChars(t % 10)

----------------------------------------------------------------------------
(* part_001: CreateConfidenceBar                                           *)
(* A confidence is the float64 nearest to the ratio n / d, or a power of   *)
(* two sign * 2^e.                                                         *)

ConfidenceFloat(c) ==
    IF c.kind = "ratio" THEN FDiv(c.n, c.d)
    ELSE [sign |-> c.sign, mant |-> <<TopMin, 0, 0, 0>>, exp |-> c.e - (MantBits - 1)]

\* The bits of the integer part of f.
IntegerBits(f) == IF f.mant = <<>> THEN 0 ELSE MantBits + f.exp

\* int(f) for a float64 f.  An int of at most 21 bits is the number n; a
\* longer one is given by its sign alone.  When the integer part of f does
\* not fit int64 the result depends on the processor: the least int64
\* (amd64, and arm64 for a negative f) or the greatest (arm64 for a
\* positive f).
IntOfFloat(f) ==
    IF IntegerBits(f) <= 21 THEN {[kind |-> "int", n |-> FToInt(f)]}
    ELSE IF IntegerBits(f) <= 63 \/ (f.sign = -1 /\ IntegerBits(f) = 64
                                        /\ f.mant = <<TopMin, 0, 0, 0>>)
    THEN {[kind |-> "long", sign |-> f.sign]}
    ELSE IF f.sign = 1 THEN {[kind |-> "long", sign |-> -1], [kind |-> "long", sign |-> 1]}
    ELSE {[kind |-> "long", sign |-> -1]}

\* Line 184, the values barLength may take.
ConfidenceBarLengths(confidence) ==
    IntOfFloat(FMulInt(ConfidenceFloat(confidence), ConfidenceBarLength))

\* Line 200: i < barLength, for the cell i of 0..9
CellFilled(i, barLength) ==
    IF barLength.kind = "int" THEN i < barLength.n ELSE barLength.sign = 1

\* Line 187: the glyphs are the blocks.
ConfidenceBlocks(opts, e) == opts.Emoji /\ supportsEmoji(e)

\* Lines 196 and 208: the bar is wrapped in brackets.
ConfidenceBrackets(opts, e) == ~opts.Emoji

\* Lines 199-205: the ten cells.
ConfidenceCells(barLength, filled, empty) ==
    [i \in 1..ConfidenceBarLength |->
        IF CellFilled(i - 1, barLength) THEN filled ELSE empty]

CreateConfidenceBar(barLength, opts, e) ==
    LET filled == IF ConfidenceBlocks(opts, e) THEN FullBlock ELSE "#"
        empty == IF ConfidenceBlocks(opts, e) THEN LightShade ELSE "-"
    IN  Ok((IF ConfidenceBrackets(opts, e) THEN <<"[">> ELSE <<>>)
           \o ConfidenceCells(barLength, filled, empty)
           \o (IF ConfidenceBrackets(opts, e) THEN <<"]">> ELSE <<>>))

----------------------------------------------------------------------------
(* components.go: ProgressBarWithOptions                                   *)

FilledGlyph(opts) == IF opts.Emoji THEN FullBlock ELSE "#"
EmptyGlyph(opts) == IF opts.Emoji THEN LightShade ELSE "-"

ProgressPercentage(current, total) ==
    LET p == FDiv(current, total)
    IN  IF FGreaterThanOne(p) THEN FOne ELSE p

\* The degenerate case that returns the empty string.
ProgressDegenerate_ZeroOnly(total) == total = 0
ProgressDegenerate(total) == total <= 0

ProgressBarWithOptions(current, total, width, opts) ==
    IF ProgressDegenerate(total) THEN Ok(<<>>)
    ELSE LET percentage == ProgressPercentage(current, total)
             barWidth == width - progressSpacing
             filledWidth == FToInt(FMulInt(percentage, barWidth))
         IN  IF RepeatPanics(filledWidth) \/ RepeatPanics(barWidth - filledWidth)
             THEN Panic
             ELSE Ok(<<"[">>
                     \o Repeat(FilledGlyph(opts), filledWidth)
                     \o Repeat(EmptyGlyph(opts), barWidth - filledWidth)
                     \o <<"]", " ">>
                     \o FormatFloat1(FMulInt(percentage, percentMultiplier))
                     \o <<"%", " ", "(">> \o IntToChars(current)
                     \o <<"/">> \o IntToChars(total) \o <<")">>)

\* components.go: ProgressBar
ProgressBar(current, total, width) ==
    ProgressBarWithOptions(current, total, width, DefaultOptions)

----------------------------------------------------------------------------
(* components.go: BarChartWithOptions                                      *)
(* data is a Go map: a function from its labels to their values.  Go       *)
(* ranges over a map in an order that it leaves unspecified and that the   *)
(* runtime randomises; the order of one range loop is the parameter order, *)
(* a sequence holding every label once, which the caller of this operator  *)
(* chooses freely.                                                         *)

\* The orders in which a range loop may visit the keys of a map.
Perms(S) ==
    {f \in [1..Cardinality(S) -> S] : \A i, j \in DOMAIN f : f[i] = f[j] => i = j}

MaxOf(S) == CHOOSE m \in S : \A x \in S : x <= m

\* strings.TrimRight(s, g): s without its trailing run of g
TrimRight(s, g) ==
    LET keep == {i \in DOMAIN s : s[i] # g}
    IN  IF keep = {} THEN <<>> ELSE SubSeq(s, 1, MaxOf(keep))

\* The loop at lines 178-186: both results start at 0.
ChartMaxValue(data) == MaxOf({0} \cup {data[l] : l \in DOMAIN data})
ChartMaxLabelLen(data) == MaxOf({0} \cup {GoLen(l) : l \in DOMAIN data})

\* Line 202: the filled part of one bar.
ChartBarLength(value, maxValue, barWidth) ==
    FToInt(FMulInt(FDiv(value, maxValue), barWidth))

\* One pass of the loop at lines 196-216: it panics when a repeat count is
\* negative, and writes one line otherwise.
ChartLinePanics(labelPadding, barLength, barWidth) ==
    \/ RepeatPanics(labelPadding)
    \/ RepeatPanics(barLength)
    \/ RepeatPanics(barWidth - barLength)

ChartLine(label, value, labelPadding, barLength, barWidth, opts) ==
    label \o Repeat(" ", labelPadding)
          \o <<" ", LightVertical>>
          \o Repeat(FilledGlyph(opts), barLength)
          \o Repeat(EmptyGlyph(opts), barWidth - barLength)
          \o <<LightVertical, " ">> \o IntToChars(value) \o <<"\n">>

BarChartWithOptions(data, width, opts, order) ==
    IF DOMAIN data = {} THEN Ok(<<>>)
    ELSE LET maxValue == ChartMaxValue(data)
             maxLabelLen == ChartMaxLabelLen(data)
             barWidth == width - maxLabelLen - labelSpacing
             barLength == [l \in DOMAIN data |->
                              ChartBarLength(data[l], maxValue, barWidth)]
         IN  IF maxValue = 0 THEN Ok(<<>>)
             ELSE IF \E l \in DOMAIN data :
                        ChartLinePanics(maxLabelLen - GoLen(l), barLength[l], barWidth)
             THEN Panic
             ELSE Ok(TrimRight(
                      Flatten([i \in DOMAIN order |->
                                  ChartLine(order[i], data[order[i]],
                                            maxLabelLen - GoLen(order[i]),
                                            barLength[order[i]], barWidth, opts)]),
                      "\n"))

----------------------------------------------------------------------------
(* components.go: BoxWithOptions                                           *)

\* Lines 39-44 and 69-74: the longest line, in bytes, starting from least.
BoxMaxLen(lines, least) == MaxOf({least} \cup {GoLen(lines[k]) : k \in DOMAIN lines})

\* Lines 52-55 and 85-88: a content row between two vertical bars.
BoxRow_Unpadded(line, maxLen, bar) == <<bar, " ">> \o line \o <<" ", bar, "\n">>
BoxRow(line, maxLen, bar) ==
    <<bar, " ">> \o line \o Repeat(" ", maxLen - GoLen(line)) \o <<" ", bar, "\n">>

simpleBox(content) ==
    LET lines == Split(content, "\n")
        maxLen == BoxMaxLen(lines, 0)
    IN  IF Len(lines) = 0 THEN Ok(<<>>)
        ELSE Ok(<<LightDownRight>> \o Repeat(LightHorizontal, maxLen + borderPadding)
                    \o <<LightDownLeft, "\n">>
                \o Flatten([k \in DOMAIN lines |-> BoxRow(lines[k], maxLen, LightVertical)])
                \o <<LightUpRight>> \o Repeat(LightHorizontal, maxLen + borderPadding)
                    \o <<LightUpLeft>>)

\* Line 69: the least interior width of a titled box.
TitledLeast_TitleOnly(titleLen) == titleLen
TitledLeast(titleLen) == titleLen + borderPadding

titledBox(title, content) ==
    LET titleLen == GoLen(title)
        lines == Split(content, "\n")
        maxLen == BoxMaxLen(lines, TitledLeast(titleLen))
        rule == Repeat(DoubleHorizontal, maxLen + borderPadding)
    IN  Ok(<<DoubleDownRight>> \o rule \o <<DoubleDownLeft, "\n">>
           \o <<DoubleVertical, " ">> \o title \o Repeat(" ", maxLen - titleLen)
               \o <<" ", DoubleVertical, "\n">>
           \o <<DoubleVerticalRight>> \o rule \o <<DoubleVerticalLeft, "\n">>
           \o Flatten([k \in DOMAIN lines |-> BoxRow(lines[k], maxLen, DoubleVertical)])
           \o <<DoubleUpRight>> \o rule \o <<DoubleUpLeft>>)

BoxWithOptions(title, content, opts) ==
    IF title = <<>> THEN simpleBox(content) ELSE titledBox(title, content)

\* components.go: Box
Box(title, content) == BoxWithOptions(title, content, DefaultOptions)

----------------------------------------------------------------------------
(* components.go: TableWithOptions                                         *)
(* Sequences are indexed from 1, Go's slices from 0: the code's test       *)
(* i < len(colWidths) is i <= Len(colWidths) here.                         *)

\* Line 115: the index test of the loop that widens the columns.
WidthLoopGuard(i, n) == i <= n

\* Line 151: the index test of the loop that writes a row.
RowLoopGuard_None(i, n) == TRUE
RowLoopGuard(i, n) == i <= n

\* Lines 108-119: each column as wide as its header, then widened by every
\* cell the guard lets through.
TableColWidths(headers, rows) ==
    [i \in DOMAIN headers |->
        MaxOf({GoLen(headers[i])}
              \cup {GoLen(rows[r][i]) : r \in {q \in DOMAIN rows :
                        i \in DOMAIN rows[q] /\ WidthLoopGuard(i, Len(headers))}})]

\* colWidths[i] is read with i out of range: the guard let through a cell
\* that has no column.
TableIndexPanics(headers, rows) ==
    \E r \in DOMAIN rows : \E i \in DOMAIN rows[r] :
        /\ i > Len(headers)
        /\ WidthLoopGuard(i, Len(headers)) \/ RowLoopGuard(i, Len(headers))

\* " " + text + padding + " |"
TableCell(text, colWidth) ==
    <<" ">> \o text \o Repeat(" ", colWidth - GoLen(text)) \o <<" ", LightVertical>>

\* Lines 124-131
TableHeaderRow(headers, colWidths) ==
    <<LightVertical>>
        \o Flatten([i \in DOMAIN headers |-> TableCell(headers[i], colWidths[i])])
        \o <<"\n">>

\* Lines 134-144
TableSeparator_BareWidth(colWidths) ==
    <<LightVerticalRight>>
        \o Flatten([i \in DOMAIN colWidths |->
                       Repeat(LightHorizontal, colWidths[i])
                           \o (IF i < Len(colWidths) THEN <<LightCross>> ELSE <<>>)])
        \o <<LightVerticalLeft, "\n">>
TableSeparator(colWidths) ==
    <<LightVerticalRight>>
        \o Flatten([i \in DOMAIN colWidths |->
                       Repeat(LightHorizontal, colWidths[i] + tableRowPadding)
                           \o (IF i < Len(colWidths) THEN <<LightCross>> ELSE <<>>)])
        \o <<LightVerticalLeft, "\n">>

\* Lines 147-158, one row
TableDataRow(row, colWidths) ==
    <<LightVertical>>
        \o Flatten([i \in DOMAIN row |->
                       IF RowLoopGuard(i, Len(colWidths))
                       THEN TableCell(row[i], colWidths[i])
                       ELSE <<>>])
        \o <<"\n">>

TableWithOptions(headers, rows, opts) ==
    IF Len(headers) = 0 THEN Ok(<<>>)
    ELSE IF TableIndexPanics(headers, rows) THEN Panic
    ELSE LET colWidths == TableColWidths(headers, rows)
         IN  IF \/ \E i \in DOMAIN headers :
                       RepeatPanics(colWidths[i] - GoLen(headers[i]))
                \/ \E r \in DOMAIN rows : \E i \in DOMAIN rows[r] :
                       /\ RowLoopGuard(i, Len(colWidths))
                       /\ RepeatPanics(colWidths[i] - GoLen(rows[r][i]))
             THEN Panic
             ELSE Ok(TrimRight(
                      TableHeaderRow(headers, colWidths)
                          \o TableSeparator(colWidths)
                          \o Flatten([r \in DOMAIN rows |->
                                         TableDataRow(rows[r], colWidths)]),
                      "\n"))

\* components.go: Table
Table(headers, rows) == TableWithOptions(headers, rows, DefaultOptions)

----------------------------------------------------------------------------
(* components.go: TreeViewWithOptions                                      *)
(* A TreeItem is [Label, Value, Children, Last].                           *)

\* Line 246: whether the item at index i of n siblings is the last one.
TreeIsLast_FromField(item, i, n) == item.Last
TreeIsLast(item, i, n) == i = n

RECURSIVE renderTreeItems(_, _)
renderTreeItems(items, prefix) ==
    Flatten([i \in DOMAIN items |->
        LET item == items[i]
            isLast == TreeIsLast(item, i, Len(items))
            itemPrefix == IF isLast THEN <<LightUpRight, LightHorizontal, " ">>
                          ELSE <<LightVerticalRight, LightHorizontal, " ">>
            childPrefix == IF isLast THEN <<" ", " ", " ">>
                           ELSE <<LightVertical, " ", " ">>
        IN  prefix \o itemPrefix \o item.Label
            \o (IF item.Value # <<>> THEN <<":", " ">> \o item.Value ELSE <<>>)
            \o <<"\n">>
            \o (IF Len(item.Children) > 0
                THEN renderTreeItems(item.Children, prefix \o childPrefix)
                ELSE <<>>)])

TreeViewWithOptions(items, opts) == TrimRight(renderTreeItems(items, <<>>), "\n")

----------------------------------------------------------------------------
(* terminal.go: Format                                                     *)
(* A value handed to Format is nil, a string, an int, a []interface{}, a   *)
(* map[string]interface{} (a function from its keys to values), or a *Node *)
(* for the struct type                                                     *)
(*     type Node struct { Name string; Done bool; Next *Node; visits int } *)
(* A *Node is an address in call.heap, 0 being the nil pointer.            *)

NilValue == [t |-> "nil"]
StringValue(s) == [t |-> "string", s |-> s]
IntValue(n) == [t |-> "int", n |-> n]
BoolValue(b) == [t |-> "bool", b |-> b]
SliceValue(items) == [t |-> "slice", items |-> items]
MapValue(m) == [t |-> "map", m |-> m]
PointerValue(addr) == [t |-> "ptr", addr |-> addr]
\* a chan int, which encoding/json cannot encode
ChanValue == [t |-> "chan"]

NodeTypeName == <<"N", "o", "d", "e">>

\* The fields of the Node at address a, in declaration order.
StructFields(heap, a) ==
    <<[Name |-> <<"N", "a", "m", "e">>, Exported |-> TRUE,
       Value |-> StringValue(heap[a].Name)],
      [Name |-> <<"D", "o", "n", "e">>, Exported |-> TRUE,
       Value |-> BoolValue(heap[a].Done)],
      [Name |-> <<"N", "e", "x", "t">>, Exported |-> TRUE,
       Value |-> PointerValue(heap[a].Next)],
      [Name |-> <<"v", "i", "s", "i", "t", "s">>, Exported |-> FALSE,
       Value |-> IntValue(0)]>>

\* The bytes of a Go string in UTF-8, for a string of ASCII glyphs and
\* EAcute, whose two bytes are 0xC3 and 0xA9.
UTF8(s) ==
    Flatten([i \in DOMAIN s |-> IF s[i] = EAcute THEN <<"0xC3", "0xA9">> ELSE <<s[i]>>])

\* fmt's %q of one byte of b: a quote, a backslash and a newline are
\* escaped, the two bytes of EAcute are printed as the glyph, a byte that
\* is not part of a valid encoding is printed as \x and its two hex digits.
QuoteByte(b, i) ==
    CASE b[i] = "\"" -> <<"\\", "\"">>
      [] b[i] = "\\" -> <<"\\", "\\">>
      [] b[i] = "\n" -> <<"\\", "n">>
      [] b[i] = "0xC3" ->
            IF i < Len(b) /\ b[i + 1] = "0xA9" THEN <<EAcute>>
            ELSE <<"\\", "x", "c", "3">>
      [] b[i] = "0xA9" ->
            IF i > 1 /\ b[i - 1] = "0xC3" THEN <<>>
            ELSE <<"\\", "x", "a", "9">>
      [] OTHER -> <<b[i]>>

Quote(b) == <<"\"">> \o Flatten([i \in DOMAIN b |-> QuoteByte(b, i)]) \o <<"\"">>

\* Lines 190-192 and 258-260: a string of more than MaxFieldLength bytes is
\* cut to its first MaxFieldLength - 3 bytes and "...".
TruncateField(b) ==
    IF Len(b) > MaxFieldLength
    THEN SubSeq(b, 1, MaxFieldLength - 3) \o <<".", ".", ".">>
    ELSE b

formatStringValue(s) == Quote(TruncateField(UTF8(s)))

formatBoolValue(b, opts, e) ==
    IF b THEN Success(<<"t", "r", "u", "e">>, opts, e)
    ELSE Muted(<<"f", "a", "l", "s", "e">>, opts, e)

\* formatFieldValue, with formatPointerValue for a *Node: a nil pointer is
\* the muted "nil", another one is formatted as the struct it points to.
formatFieldValue(v, opts, e) ==
    CASE v.t = "string" -> formatStringValue(v.s)
      [] v.t = "int" -> IntToChars(v.n)
      [] v.t = "bool" -> formatBoolValue(v.b, opts, e)
      [] v.t = "ptr" ->
            IF v.addr = 0 THEN Muted(<<"n", "i", "l">>, opts, e)
            ELSE <<"{">> \o NodeTypeName \o <<"}">>

\* Lines 143-150: the field is a struct, or a pointer to one, that
\* structToTreeItems descends into.
DescendsInto_Never(v) == FALSE
DescendsInto(v) == v.t = "ptr" /\ v.addr # 0

\* Every concatenation of one string from each set of the sequence ss.
RECURSIVE Concats(_)
Concats(ss) ==
    IF ss = <<>> THEN {<<>>}
    ELSE {h \o t : h \in Head(ss), t \in Concats(Tail(ss))}

\* formatMap writes the entries in the order of a range loop over the map,
\* which Go leaves unspecified: the operator is the set of the texts that
\* one call may write.
RECURSIVE formatMap(_, _, _, _)
formatMapEntry(key, value, prefix, opts, e) ==
    LET head == prefix
                \o ColorizeWithProfile(key, "accent", DefaultColorProfile, opts, e)
                \o <<":", " ">>
    IN  CASE value.t = "map" ->
                {head \o <<"\n">> \o sub :
                    sub \in formatMap(value.m, prefix \o <<" ", " ">>, opts, e)}
          [] value.t = "slice" ->
                {head \o <<"[">> \o IntToChars(Len(value.items))
                    \o <<" ", "i", "t", "e", "m", "s", "]", "\n">>}
          [] value.t = "string" -> {head \o formatStringValue(value.s) \o <<"\n">>}
          [] value.t = "nil" -> {head \o Muted(<<"n", "i", "l">>, opts, e) \o <<"\n">>}
          [] value.t = "int" -> {head \o IntToChars(value.n) \o <<"\n">>}

formatMap(data, prefix, opts, e) ==
    UNION {Concats([i \in DOMAIN order |->
                      formatMapEntry(order[i], data[order[i]], prefix, opts, e)]) :
           order \in Perms(DOMAIN data)}

formatSliceItem(i, item, opts, e) ==
    LET head == <<"[">> \o IntToChars(i) \o <<"]", " ">>
    IN  CASE item.t = "map" ->
                {head \o <<"{", "\n">> \o sub \o <<"}", "\n">> :
                    sub \in formatMap(item.m, <<" ", " ">>, opts, e)}
          [] item.t = "string" -> {head \o Quote(UTF8(item.s)) \o <<"\n">>}
          [] item.t = "nil" -> {head \o Muted(<<"n", "i", "l">>, opts, e) \o <<"\n">>}
          [] item.t = "int" -> {head \o IntToChars(item.n) \o <<"\n">>}

ArrayData == <<"A", "r", "r", "a", "y", " ", "D", "a", "t", "a">>

\* The slice index i of the code is the sequence index i + 1.
formatSlice(data, opts, e) ==
    {Header(ArrayData, opts, e) \o <<"\n">>
        \o Repeat(LightHorizontal, 10) \o <<"\n", "\n">> \o body :
     body \in Concats([i \in DOMAIN data |-> formatSliceItem(i - 1, data[i], opts, e)])}

\* The header that formatStruct writes before the tree (lines 103-109).
StructHeader(opts, e) ==
    Header(NodeTypeName, opts, e) \o <<"\n">>
    \o Repeat(LightHorizontal, GoLen(NodeTypeName)) \o <<"\n", "\n">>

\* Format, lines 66-76: data that is no map[string]interface{}, no
\* []interface{}, no string and no (pointer to a) struct goes to
\* json.MarshalIndent, after formatStruct returned an error.
FallsBack(data) == data.t \in {"int", "bool", "chan"}

\* formatStruct, lines 84-100: what it has written to the output when it
\* returns the error of line 99, which precedes the header of lines 108-109.
WrittenBeforeError_Header(data) == <<"D", "a", "t", "a", "\n">>
WrittenBeforeError(data) == <<>>

\* json.MarshalIndent(data, "", "  ") returns an error
MarshalFails(data) == data.t = "chan"

MarshalIndent(data) ==
    CASE data.t = "int" -> IntToChars(data.n)
      [] data.t = "bool" -> IF data.b THEN <<"t", "r", "u", "e">>
                            ELSE <<"f", "a", "l", "s", "e">>

\* Line 71: fmt.Errorf("failed to format data: %w", jsonErr) and no bytes
FormatFailed ==
    [kind |-> "error", out |-> <<>>,
     err |-> <<"f", "a", "i", "l", "e", "d", " ", "t", "o", " ",
               "f", "o", "r", "m", "a", "t", " ", "d", "a", "t", "a", ":", " ",
               "json: unsupported type: chan int">>]

FormatFallback(data) ==
    IF MarshalFails(data) THEN FormatFailed
    ELSE Ok(WrittenBeforeError(data) \o MarshalIndent(data))

\* The texts that Format may return for data it formats without reflection.
FormatDirectly(data, opts, e) ==
    CASE data.t = "nil" -> {<<>>}
      [] data.t = "map" -> formatMap(data.m, <<>>, opts, e)
      [] data.t = "slice" -> formatSlice(data.items, opts, e)
      [] data.t = "string" -> {data.s}

----------------------------------------------------------------------------
(* The progress bar called once on each argument tuple.                    *)

OptionValues ==
    [Color : BOOLEAN, Emoji : BOOLEAN, Width : {DefaultTerminalWidth},
     Compact : {FALSE}, ShowIcons : {TRUE}]

ProgressCalls ==
    [op : {"ProgressBarWithOptions"},
     current : -2..(MaxTotal + 1),
     total : -1..MaxTotal,
     width : (progressSpacing - MaxDeficit)..(progressSpacing + MaxTrack),
     opts : OptionValues]

InitProgress ==
    /\ call \in ProgressCalls
    /\ result = Pending
    /\ prev = Pending
    /\ calls = 0
    /\ stack = <<>>
    /\ objects = <<>>
    /\ env = ColorTerminal

CallProgressBar ==
    /\ call.op = "ProgressBarWithOptions"
    /\ calls = 0
    /\ result' = ProgressBarWithOptions(call.current, call.total, call.width, call.opts)
    /\ prev' = result
    /\ calls' = calls + 1
    /\ UNCHANGED <<objects, call, stack, env>>

NextProgress == CallProgressBar

SpecProgress == InitProgress /\ [][NextProgress]_vars

----------------------------------------------------------------------------
(* The bar chart called MaxCalls times on the same map, width and options. *)

ChartLabels == {<<"a">>, <<"b", "b">>}

ChartData == UNION {[L -> 0..MaxValue] : L \in SUBSET ChartLabels}

ChartCalls ==
    [op : {"BarChartWithOptions"},
     data : ChartData,
     width : (labelSpacing - MaxDeficit)
                 ..(labelSpacing + MaxOf({Len(l) : l \in ChartLabels}) + MaxTrack),
     opts : {o \in OptionValues : o.Color}]

InitBarChart ==
    /\ call \in ChartCalls
    /\ result = Pending
    /\ prev = Pending
    /\ calls = 0
    /\ stack = <<>>
    /\ objects = <<>>
    /\ env = ColorTerminal

CallBarChart ==
    /\ call.op = "BarChartWithOptions"
    /\ calls < MaxCalls
    /\ \E order \in Perms(DOMAIN call.data) :
          result' = BarChartWithOptions(call.data, call.width, call.opts, order)
    /\ prev' = result
    /\ calls' = calls + 1
    /\ UNCHANGED <<objects, call, stack, env>>

NextBarChart == CallBarChart

SpecBarChart == InitBarChart /\ [][NextBarChart]_vars

----------------------------------------------------------------------------
(* The table called once on each header list and row list.                 *)

\* Headers of three and two bytes, cells of one and five bytes; one header
\* and one cell hold a glyph of two bytes.
HeaderTexts == {<<"h", "h", "h">>, <<EAcute>>}
CellTexts == {<<"c">>, <<EAcute, "c", "c", "c">>}

SeqsUpTo(S, n) == UNION {[1..k -> S] : k \in 0..n}

TableCalls ==
    [op : {"TableWithOptions"},
     headers : SeqsUpTo(HeaderTexts, MaxCols),
     rows : SeqsUpTo(SeqsUpTo(CellTexts, MaxCols), MaxRows),
     opts : {DefaultOptions}]

InitTable ==
    /\ call \in TableCalls
    /\ result = Pending
    /\ prev = Pending
    /\ calls = 0
    /\ stack = <<>>
    /\ objects = <<>>
    /\ env = ColorTerminal

CallTable ==
    /\ call.op = "TableWithOptions"
    /\ calls = 0
    /\ result' = TableWithOptions(call.headers, call.rows, call.opts)
    /\ prev' = result
    /\ calls' = calls + 1
    /\ UNCHANGED <<objects, call, stack, env>>

NextTable == CallTable

SpecTable == InitTable /\ [][NextTable]_vars

----------------------------------------------------------------------------
(* The box called once on each title and content.                          *)

BoxGlyphs == {"a", EAcute, "\n"}

BoxCalls ==
    [op : {"BoxWithOptions"},
     title : SeqsUpTo(BoxGlyphs, MaxTitle),
     content : SeqsUpTo(BoxGlyphs, MaxContent),
     opts : {DefaultOptions}]

InitBox ==
    /\ call \in BoxCalls
    /\ result = Pending
    /\ prev = Pending
    /\ calls = 0
    /\ stack = <<>>
    /\ objects = <<>>
    /\ env = ColorTerminal

CallBox ==
    /\ call.op = "BoxWithOptions"
    /\ calls = 0
    /\ result' = BoxWithOptions(call.title, call.content, call.opts)
    /\ prev' = result
    /\ calls' = calls + 1
    /\ UNCHANGED <<objects, call, stack, env>>

NextBox == CallBox

SpecBox == InitBox /\ [][NextBox]_vars

----------------------------------------------------------------------------
(* The tree view called once on each forest.  A forest of n nodes is given *)
(* by the parent of each node, the nodes numbered in pre-order and 0       *)
(* standing for no parent; node i is labelled "n<i>", it has the value "v" *)
(* or none, and its Last field is set as the caller pleases.               *)

RECURSIVE Ancestors(_, _)
Ancestors(parent, i) ==
    IF parent[i] = 0 THEN {} ELSE {parent[i]} \cup Ancestors(parent, parent[i])

\* The parent functions that number the nodes of a forest in pre-order.
Forests(n) ==
    {parent \in [1..n -> 0..(n - 1)] :
        \A i \in 1..n :
            /\ parent[i] < i
            /\ i > 1 => parent[i] \in {0, i - 1} \cup Ancestors(parent, i - 1)}

Siblings(parent, i) == {j \in DOMAIN parent : parent[j] = parent[i]}
LastSibling(parent, i) == \A j \in Siblings(parent, i) : j <= i

\* The members of the set of numbers S in increasing order.
Sorted(S) ==
    [k \in 1..Cardinality(S) |-> CHOOSE x \in S : Cardinality({y \in S : y < x}) = k - 1]

NodeLabel(i) == <<"n", Digit(i)>>

NodeValue(values, i) ==
    CASE values = "none" -> <<>>
      [] values = "all" -> <<"v">>
      [] values = "odd" -> IF i % 2 = 1 THEN <<"v">> ELSE <<>>

NodeLast(lasts, parent, i) ==
    CASE lasts = "position" -> LastSibling(parent, i)
      [] lasts = "inverted" -> ~LastSibling(parent, i)
      [] lasts = "always" -> TRUE
      [] lasts = "never" -> FALSE

\* The TreeItems of the children of node p (of the roots for p = 0).
RECURSIVE TreeItemsOf(_, _, _, _)
TreeItemsOf(parent, values, lasts, p) ==
    LET children == Sorted({j \in DOMAIN parent : parent[j] = p})
    IN  [k \in DOMAIN children |->
            [Label |-> NodeLabel(children[k]),
             Value |-> NodeValue(values, children[k]),
             Children |-> TreeItemsOf(parent, values, lasts, children[k]),
             Last |-> NodeLast(lasts, parent, children[k])]]

TreeCalls ==
    [op : {"TreeViewWithOptions"},
     parent : UNION {Forests(n) : n \in 0..MaxTreeNodes},
     values : {"none", "all", "odd"},
     lasts : {"position", "inverted", "always", "never"},
     opts : {DefaultOptions}]

InitTree ==
    /\ call \in TreeCalls
    /\ result = Pending
    /\ prev = Pending
    /\ calls = 0
    /\ stack = <<>>
    /\ objects = <<>>
    /\ env = ColorTerminal

CallTree ==
    /\ call.op = "TreeViewWithOptions"
    /\ calls = 0
    /\ result' = Ok(TreeViewWithOptions(
                       TreeItemsOf(call.parent, call.values, call.lasts, 0), call.opts))
    /\ prev' = result
    /\ calls' = calls + 1
    /\ UNCHANGED <<objects, call, stack, env>>

NextTree == CallTree

SpecTree == InitTree /\ [][NextTree]_vars

----------------------------------------------------------------------------
(* The confidence bar called once on each confidence, options and          *)
(* environment.                                                            *)

Confidences ==
    [kind : {"ratio"}, n : -MaxConfNum..MaxConfNum, d : 1..MaxConfDen]
    \cup [kind : {"power"}, sign : {-1, 1}, e : {21, 60, 63}]

ConfidenceCalls ==
    [op : {"CreateConfidenceBar"}, confidence : Confidences, opts : OptionValues]

InitConfidence ==
    /\ call \in ConfidenceCalls
    /\ result = Pending
    /\ prev = Pending
    /\ calls = 0
    /\ stack = <<>>
    /\ objects = <<>>
    /\ env \in Environments

CallConfidenceBar ==
    /\ call.op = "CreateConfidenceBar"
    /\ calls = 0
    /\ \E barLength \in ConfidenceBarLengths(call.confidence) :
           result' = CreateConfidenceBar(barLength, call.opts, env)
    /\ prev' = result
    /\ calls' = calls + 1
    /\ UNCHANGED <<objects, call, stack, env>>

NextConfidence == CallConfidenceBar

SpecConfidence == InitConfidence /\ [][NextConfidence]_vars

----------------------------------------------------------------------------
(* GetEmoji and GetSymbol called once on each key, options and environment. *)

SymbolKeys == DOMAIN getEmojiMap \cup {"", "unknown", "Error"}

SymbolCalls == [op : {"GetEmoji", "GetSymbol"}, key : SymbolKeys, opts : OptionValues]

InitSymbol ==
    /\ call \in SymbolCalls
    /\ result = Pending
    /\ prev = Pending
    /\ calls = 0
    /\ stack = <<>>
    /\ objects = <<>>
    /\ env \in Environments

CallGetEmoji ==
    /\ call.op = "GetEmoji"
    /\ calls = 0
    /\ result' = Ok(GetEmoji(call.key, call.opts, env))
    /\ prev' = result
    /\ calls' = calls + 1
    /\ UNCHANGED <<objects, call, stack, env>>

CallGetSymbol ==
    /\ call.op = "GetSymbol"
    /\ calls = 0
    /\ result' = Ok(GetSymbol(call.key, call.opts, env))
    /\ prev' = result
    /\ calls' = calls + 1
    /\ UNCHANGED <<objects, call, stack, env>>

NextSymbol == CallGetEmoji \/ CallGetSymbol

SpecSymbol == InitSymbol /\ [][NextSymbol]_vars

----------------------------------------------------------------------------
(* A style helper called once on each text, options and environment.       *)

StyleTexts == {<<>>, <<"o", "k">>, <<EAcute>>}
StyleColors == {<<>>, <<Red>>, <<Bold, Cyan>>, <<"x">>}
StyleNames ==
    {"bold", "dim", "italic", "red", "green", "yellow", "blue", "magenta",
     "cyan", "white", "underline"}
ColorTypes == {"error", "warning", "info", "success", "accent", "muted", "other", ""}
TextHelpers == {"Header", "Subtitle", "Muted", "Success", "Warning", "Error", "Info"}

StyleCalls ==
    [op : {"Colorize"}, text : StyleTexts, color : StyleColors, opts : OptionValues]
    \cup [op : {"ColorizeWithProfile"}, text : StyleTexts, colorType : ColorTypes,
          opts : OptionValues]
    \cup [op : {"Stylize"}, text : StyleTexts, styles : SeqsUpTo(StyleNames, MaxStyles),
          opts : OptionValues]
    \cup [op : TextHelpers, text : StyleTexts, opts : OptionValues]

InitStyle ==
    /\ call \in StyleCalls
    /\ result = Pending
    /\ prev = Pending
    /\ calls = 0
    /\ stack = <<>>
    /\ objects = <<>>
    /\ env \in Environments

\* the call of the helper op returning out
Returns(op, out) ==
    /\ call.op = op
    /\ calls = 0
    /\ result' = Ok(out)
    /\ prev' = result
    /\ calls' = calls + 1
    /\ UNCHANGED <<objects, call, stack, env>>

CallColorize == Returns("Colorize", Colorize(call.text, call.color, call.opts, env))
CallColorizeWithProfile ==
    Returns("ColorizeWithProfile",
            ColorizeWithProfile(call.text, call.colorType, DefaultColorProfile,
                                call.opts, env))
CallStylize == Returns("Stylize", Stylize(call.text, call.styles, call.opts, env))
CallHeader == Returns("Header", Header(call.text, call.opts, env))
CallSubtitle == Returns("Subtitle", Subtitle(call.text, call.opts, env))
CallMuted == Returns("Muted", Muted(call.text, call.opts, env))
CallSuccess == Returns("Success", Success(call.text, call.opts, env))
CallWarning == Returns("Warning", Warning(call.text, call.opts, env))
CallError == Returns("Error", Error(call.text, call.opts, env))
CallInfo == Returns("Info", Info(call.text, call.opts, env))

NextStyle ==
    \/ CallColorize
    \/ CallColorizeWithProfile
    \/ CallStylize
    \/ CallHeader
    \/ CallSubtitle
    \/ CallMuted
    \/ CallSuccess
    \/ CallWarning
    \/ CallError
    \/ CallInfo

SpecStyle == InitStyle /\ [][NextStyle]_vars

----------------------------------------------------------------------------
(* Any sequence of calls on the objects of one caller.  objects.options is  *)
(* the store of the TerminalOptions objects, an address being an index;     *)
(* objects.formatter is the address of the options that the formatter      *)
(* holds, 0 before there is a formatter.  The caller's own options object  *)
(* is at address 1; the caller may write to any options object between two *)
(* calls.                                                                  *)

\* formatter.go:24, &TerminalOptions{...}: the address of a new object
Alloc_First(options) == 1
Alloc(options) == Len(options) + 1

\* the store with the object o at address a
Store(options, a, o) ==
    IF a > Len(options) THEN Append(options, o) ELSE [options EXCEPT ![a] = o]

CallerObjects ==
    [options : {<<o>> : o \in OptionValues},
     formatter : {0},
     headers : {<<<<"h">>, <<"h", "h">>>>},
     rows : {<<<<<<"c", "c", "c">>>>, <<>>>>},
     data : {(<<"a">> :> 1) @@ (<<"b", "b">> :> 2)},
     items : {<<[Label |-> <<"n">>, Value |-> <<>>, Children |-> <<>>, Last |-> FALSE]>>},
     value : {MapValue(<<"k">> :> StringValue(<<"s">>))}]

InitCalls ==
    /\ call = [op |-> "none"]
    /\ result = Pending
    /\ prev = Pending
    /\ calls = 0
    /\ stack = <<>>
    /\ env = ColorTerminal
    /\ objects \in CallerObjects

\* the options that the caller hands to a call: its own object or the one
\* returned last
HeldOptions == {1, Len(objects.options)}

\* the call c returning r, having written nothing
Reads(c, r) ==
    /\ call' = c
    /\ result' = r
    /\ UNCHANGED <<prev, calls, stack, env, objects>>

\* the call c returning the address a of the new options object o
Allocates(c, a, o, formatter) ==
    /\ Len(objects.options) < MaxObjects
    /\ call' = c
    /\ result' = [kind |-> "ok", out |-> <<>>, addr |-> a]
    /\ objects' = [objects EXCEPT !.options = Store(@, a, o), !.formatter = formatter]
    /\ UNCHANGED <<prev, calls, stack, env>>

\* the caller assigns to the fields of an options object it holds
CallerSetsOptions ==
    /\ \E a \in DOMAIN objects.options :
           \/ objects' = [objects EXCEPT !.options[a].Color = ~@]
           \/ objects' = [objects EXCEPT !.options[a].Emoji = ~@]
    /\ call' = [op |-> "caller"]
    /\ result' = Pending
    /\ UNCHANGED <<prev, calls, stack, env>>

SeqDefaultOptions ==
    Allocates([op |-> "DefaultOptions"], Alloc(objects.options), DefaultOptions,
              objects.formatter)

\* terminal.go:23-31: opts := DefaultOptions(); opts.Color = color
SeqNewTerminal ==
    \E color \in BOOLEAN :
        LET opts == Alloc(objects.options)
        IN  Allocates([op |-> "NewTerminal", color |-> color], opts,
                      [DefaultOptions EXCEPT !.Color = color], opts)

\* terminal.go:34-43: the formatter keeps the caller's pointer, or the
\* address of a new default object when the pointer is nil
SeqNewTerminalWithOptions ==
    \E opts \in 0..Len(objects.options) :
        IF opts = 0
        THEN Allocates([op |-> "NewTerminalWithOptions", opts |-> 0],
                       Alloc(objects.options), DefaultOptions, Alloc(objects.options))
        ELSE /\ call' = [op |-> "NewTerminalWithOptions", opts |-> opts]
             /\ result' = Ok(<<>>)
             /\ objects' = [objects EXCEPT !.formatter = opts]
             /\ UNCHANGED <<prev, calls, stack, env>>

SeqFormat ==
    /\ objects.formatter # 0
    /\ \E out \in FormatDirectly(objects.value, objects.options[objects.formatter], env) :
           Reads([op |-> "Format"], Ok(out))

SeqBox == Reads([op |-> "Box"], Box(<<"t">>, <<"a", "\n", "b">>))

SeqProgressBar == Reads([op |-> "ProgressBar"], ProgressBar(1, 2, 30))

SeqBarChart ==
    \E order \in Perms(DOMAIN objects.data) :
        Reads([op |-> "BarChart"],
              BarChartWithOptions(objects.data, 30, DefaultOptions, order))

SeqTable ==
    \E opts \in HeldOptions :
        Reads([op |-> "TableWithOptions", opts |-> opts],
              TableWithOptions(objects.headers, objects.rows, objects.options[opts]))

SeqTreeView ==
    \E opts \in HeldOptions :
        Reads([op |-> "TreeViewWithOptions", opts |-> opts],
              Ok(TreeViewWithOptions(objects.items, objects.options[opts])))

SeqConfidenceBar ==
    \E opts \in HeldOptions :
        \E barLength \in ConfidenceBarLengths([kind |-> "ratio", n |-> 1, d |-> 2]) :
            Reads([op |-> "CreateConfidenceBar", opts |-> opts],
                  CreateConfidenceBar(barLength, objects.options[opts], env))

SeqGetSymbol ==
    \E opts \in HeldOptions :
        Reads([op |-> "GetSymbol", opts |-> opts],
              Ok(GetSymbol("success", objects.options[opts], env)))

SeqColorize ==
    \E opts \in HeldOptions :
        Reads([op |-> "Colorize", opts |-> opts],
              Ok(Colorize(<<"o", "k">>, <<Red>>, objects.options[opts], env)))

SeqHeader ==
    \E opts \in HeldOptions :
        Reads([op |-> "Header", opts |-> opts],
              Ok(Header(<<"o", "k">>, objects.options[opts], env)))

NextCalls ==
    \/ CallerSetsOptions
    \/ SeqDefaultOptions
    \/ SeqNewTerminal
    \/ SeqNewTerminalWithOptions
    \/ SeqFormat
    \/ SeqBox
    \/ SeqProgressBar
    \/ SeqBarChart
    \/ SeqTable
    \/ SeqTreeView
    \/ SeqConfidenceBar
    \/ SeqGetSymbol
    \/ SeqColorize
    \/ SeqHeader

SpecCalls == InitCalls /\ [][NextCalls]_vars

----------------------------------------------------------------------------
(* Format called up to MaxCalls times on the same data.  The data that     *)
(* needs no reflection is formatted in one step; a *Node is formatted by   *)
(* structToTreeItems, one step for each field, call and return, its        *)
(* frames held in stack.  A frame is [v, i, items]: the address of the     *)
(* struct, the index of the next field, and the items built so far.        *)

MapKeys == {<<"k">>, <<"q">>}
Maps(K, V) == UNION {[D -> V] : D \in SUBSET K}
LeafValues == {NilValue, StringValue(<<"s">>), IntValue(7)}
InnerMaps == {MapValue(m) : m \in Maps(MapKeys, LeafValues)}
OuterMaps ==
    {MapValue(m) :
        m \in Maps(MapKeys, LeafValues \cup InnerMaps \cup {SliceValue(<<IntValue(7)>>)})}
\* the maps inside a slice: every key set, the values nil
SliceMaps == {MapValue(m) : m \in Maps(MapKeys, {NilValue})}
Slices == {SliceValue(items) : items \in SeqsUpTo(LeafValues \cup SliceMaps, MaxItems)}
\* Strings around the length MaxFieldLength: runs of "a" about one glyph that
\* is a quote, EAcute or nothing, and a run of EAcute.
FieldTexts ==
    {Repeat("a", n) \o g \o Repeat("a", m) :
        n \in {0, 46, 47, 49}, g \in {<<>>, <<EAcute>>, <<"\"">>}, m \in {0, 1, 4}}
    \cup {Repeat(EAcute, 26)}
TextMaps == {MapValue([k \in {<<"k">>} |-> StringValue(s)]) : s \in FieldTexts}
DirectData == {NilValue, StringValue(<<"s">>)} \cup OuterMaps \cup Slices \cup TextMaps
\* data of the default case of Format that is no struct
OtherData == {IntValue(7), BoolValue(TRUE), ChanValue}

Heaps ==
    [1..MaxNodes -> [Name : {<<"a">>}, Done : BOOLEAN, Next : 0..MaxNodes]]
    \cup {[a \in 1..MaxNodes |-> [Name |-> s, Done |-> FALSE, Next |-> 0]] :
             s \in FieldTexts}

FormatOptions ==
    [Color : BOOLEAN, Emoji : {TRUE}, Width : {DefaultTerminalWidth},
     Compact : {FALSE}, ShowIcons : {TRUE}]

FormatCalls ==
    [op : {"Format"}, data : DirectData \cup OtherData, heap : {<<>>}, opts : FormatOptions]
    \cup [op : {"Format"}, data : {PointerValue(0), PointerValue(1)},
          heap : Heaps, opts : FormatOptions]

InitFormat ==
    /\ call \in FormatCalls
    /\ result = Pending
    /\ prev = Pending
    /\ calls = 0
    /\ stack = <<>>
    /\ objects = <<>>
    /\ env \in {ColorTerminal, PlainTerminal}

Running == [kind |-> "running", out |-> <<>>]
\* The Go runtime ended the process: fatal error: stack overflow.
Fatal == [kind |-> "fatal", out |-> <<>>]

Idle == result.kind \in {"pending", "ok", "error"} /\ calls < MaxCalls

Frame(a) == [v |-> a, i |-> 1, items |-> <<>>]
Top == stack[Len(stack)]
TopFields == StructFields(call.heap, Top.v)
NumField == 4
InLoop == result = Running /\ Top.i <= NumField

\* Format, lines 52-65: nil, a map, a slice or a string.
FormatDirect ==
    /\ Idle
    /\ call.data.t # "ptr" /\ ~FallsBack(call.data)
    /\ \E out \in FormatDirectly(call.data, call.opts, env) : result' = Ok(out)
    /\ prev' = result
    /\ calls' = calls + 1
    /\ UNCHANGED <<objects, call, stack, env>>

\* Format's default case for data that is no struct: lines 66-76.
FormatByFallback ==
    /\ Idle
    /\ FallsBack(call.data)
    /\ result' = FormatFallback(call.data)
    /\ prev' = result
    /\ calls' = calls + 1
    /\ UNCHANGED <<objects, call, stack, env>>

\* Format's default case and formatStruct, lines 84-96, for a nil *Node.
FormatNilPointer ==
    /\ Idle
    /\ call.data = PointerValue(0)
    /\ result' = Ok(<<"n", "i", "l">>)
    /\ prev' = result
    /\ calls' = calls + 1
    /\ UNCHANGED <<objects, call, stack, env>>

\* formatStruct, lines 84-112, up to the call of structToTreeItems.
FormatStructBegin ==
    /\ Idle
    /\ call.data.t = "ptr" /\ call.data.addr # 0
    /\ result' = Running
    /\ prev' = result
    /\ stack' = <<Frame(call.data.addr)>>
    /\ UNCHANGED <<objects, call, calls, env>>

Advance(frame, newItems) == [frame EXCEPT !.i = @ + 1, !.items = @ \o newItems]

TreeItem(field, i, children) ==
    [Label |-> field.Name, Value |-> formatFieldValue(field.Value, call.opts, env),
     Children |-> children, Last |-> i = NumField]

\* Line 129: fieldType.IsExported()
IsExported_Always(field) == TRUE
IsExported(field) == field.Exported

\* Lines 129-131: an unexported field is skipped.
SkipField ==
    /\ InLoop
    /\ ~IsExported(TopFields[Top.i])
    /\ stack' = [stack EXCEPT ![Len(stack)] = Advance(@, <<>>)]
    /\ UNCHANGED <<objects, call, result, prev, calls, env>>

\* Lines 133-152 for a field that has no struct to descend into.
LeafField ==
    /\ InLoop
    /\ IsExported(TopFields[Top.i])
    /\ ~DescendsInto(TopFields[Top.i].Value)
    /\ stack' = [stack EXCEPT ![Len(stack)] =
                    Advance(@, <<TreeItem(TopFields[Top.i], Top.i, <<>>)>>)]
    /\ UNCHANGED <<objects, call, result, prev, calls, env>>

\* Line 146: the recursive call for a pointer to a struct.
DescendField ==
    /\ InLoop
    /\ IsExported(TopFields[Top.i])
    /\ DescendsInto(TopFields[Top.i].Value)
    /\ Len(stack) < StackLimit
    /\ stack' = Append(stack, Frame(TopFields[Top.i].Value.addr))
    /\ UNCHANGED <<objects, call, result, prev, calls, env>>

\* The recursive call of line 146 with no stack left for its frame.
StackOverflow ==
    /\ InLoop
    /\ IsExported(TopFields[Top.i])
    /\ DescendsInto(TopFields[Top.i].Value)
    /\ Len(stack) = StackLimit
    /\ result' = Fatal
    /\ UNCHANGED <<objects, call, prev, calls, stack, env>>

\* Line 155 of a recursive call: the items become the Children of the
\* caller's item (line 146), which the caller appends (line 152).
ReturnItems ==
    /\ result = Running
    /\ Top.i > NumField
    /\ Len(stack) > 1
    /\ LET caller == stack[Len(stack) - 1]
           field == StructFields(call.heap, caller.v)[caller.i]
       IN  stack' = [SubSeq(stack, 1, Len(stack) - 1) EXCEPT ![Len(stack) - 1] =
                        Advance(@, <<TreeItem(field, caller.i, Top.items)>>)]
    /\ UNCHANGED <<objects, call, result, prev, calls, env>>

\* Line 155 of the outermost call, then formatStruct lines 113-117.
FormatStructEnd ==
    /\ result = Running
    /\ Top.i > NumField
    /\ Len(stack) = 1
    /\ result' = Ok(StructHeader(call.opts, env)
                    \o TreeViewWithOptions(Top.items, call.opts))
    /\ calls' = calls + 1
    /\ stack' = <<>>
    /\ UNCHANGED <<objects, call, prev, env>>

NextFormat ==
    \/ FormatDirect
    \/ FormatByFallback
    \/ FormatNilPointer
    \/ FormatStructBegin
    \/ SkipField
    \/ LeafField
    \/ DescendField
    \/ StackOverflow
    \/ ReturnItems
    \/ FormatStructEnd

SpecFormat == InitFormat /\ [][NextFormat]_vars

----------------------------------------------------------------------------
(* Reading a rendered string.                                              *)

Count(s, g) == Cardinality({i \in DOMAIN s : s[i] = g})

\* The place of the first g in s, 0 when there is none.
IndexOf(s, g) ==
    IF \E i \in DOMAIN s : s[i] = g
    THEN CHOOSE i \in DOMAIN s : s[i] = g /\ \A j \in 1..(i - 1) : s[j] # g
    ELSE 0

\* The glyphs between the opening '[' and the first ']'.
Track(out) == SubSeq(out, 2, IndexOf(out, "]") - 1)

\* "[<filled><empty>] <tenths/10 to one decimal>% (<current>/<total>)"
ProgressText(filled, track, tenths, current, total, opts) ==
    <<"[">> \o Repeat(FilledGlyph(opts), filled)
            \o Repeat(EmptyGlyph(opts), track - filled)
            \o <<"]", " ">> \o NatToChars(tenths \div 10) \o <<".">>
            \o NatToChars(tenths % 10) \o <<"%", " ", "(">>
            \o IntToChars(current) \o <<"/">> \o IntToChars(total) \o <<")">>

----------------------------------------------------------------------------
(* Claims about ProgressBarWithOptions, checked under SpecProgress.        *)

ProgressCalled == call.op = "ProgressBarWithOptions" /\ calls = 1

\* C1: for every total > 0, every width >= 20 and every integer current
\* (negative and above total included) the call returns a bar, and the
\* number of filled glyphs in it is between 0 and width - 20.
C1_FillClamped ==
    (ProgressCalled /\ call.total > 0 /\ call.width >= progressSpacing)
        => /\ result.kind = "ok"
           /\ Count(Track(result.out), FilledGlyph(call.opts))
                  \in 0..(call.width - progressSpacing)

\* C2: a layout function that returns only a string returns one for every
\* input, a width below the reserved columns included: no call aborts.
C2_AlwaysReturnsString ==
    calls > 0 => result.kind = "ok"

\* C6: whenever total <= 0 the result is the empty string, for every
\* current, width and options.
C6_EmptyWhenTotalNotPositive ==
    (ProgressCalled /\ call.total <= 0) => result = Ok(<<>>)

\* C6 witness: a call with a negative total, a positive current and a
\* width below the reserved columns returned the empty string.
C6_Witness ==
    /\ ProgressCalled
    /\ call.total < 0 /\ call.current > 0 /\ call.width < progressSpacing
    /\ result = Ok(<<>>)

\* C7: for total > 0, 0 <= current <= total and width >= 20 the result is
\* '[', floor(current * (width - 20) / total) filled glyphs, empty glyphs up
\* to a track of width - 20, ']', then the percentage 100 * current / total
\* to one decimal and '(current/total)'.
C7_FloorFilledTrack ==
    (/\ ProgressCalled
     /\ call.total > 0 /\ call.current \in 0..call.total
     /\ call.width >= progressSpacing)
        => \E tenths \in 0..(10 * percentMultiplier) :
              /\ 2 * Abs(tenths * call.total - 10 * percentMultiplier * call.current)
                     <= call.total
              /\ result = Ok(ProgressText(
                     (call.current * (call.width - progressSpacing)) \div call.total,
                     call.width - progressSpacing, tenths,
                     call.current, call.total, call.opts))

----------------------------------------------------------------------------
(* Claims about BarChartWithOptions, checked under SpecBarChart.           *)

ChartCalled == call.op = "BarChartWithOptions" /\ calls > 0

\* "<label, padded> |<filled><empty>| <value>"
ChartLineText(label, labelLen, filled, track, value, opts) ==
    label \o Repeat(" ", labelLen - Len(label)) \o <<" ", LightVertical>>
          \o Repeat(FilledGlyph(opts), filled)
          \o Repeat(EmptyGlyph(opts), track - filled)
          \o <<LightVertical, " ">> \o IntToChars(value)

\* lines joined by line breaks
RECURSIVE JoinLines(_)
JoinLines(ls) == IF ls = <<>> THEN <<>>
                 ELSE IF Len(ls) = 1 THEN ls[1]
                 ELSE ls[1] \o <<"\n">> \o JoinLines(Tail(ls))

\* C4: two calls with the same data map, width and options return the same
\* glyphs, with the lines in the same label order.
C4_SameOutputEveryCall ==
    (ChartCalled /\ calls >= 2) => result = prev

\* C8: the result is the empty string when the map is empty or its largest
\* value is 0, for every width; when some value is positive the result is
\* not empty and every label occurs in it.
C8_EmptyOrEveryLabel ==
    ChartCalled =>
        IF DOMAIN call.data = {} \/ ChartMaxValue(call.data) = 0
        THEN result = Ok(<<>>)
        ELSE /\ result.kind = "ok"
             /\ result.out # <<>>
             /\ \A l \in DOMAIN call.data : Occurs(l, result.out)

\* C9: for non-negative values with maxValue > 0 and
\* width >= maxLabelLen + 10, the result has one line per label, each the
\* label right-padded to maxLabelLen, a track of width - maxLabelLen - 10
\* glyphs of which floor(value * trackWidth / maxValue) are filled, and
\* the value.
C9_FloorBars ==
    (/\ ChartCalled
     /\ ChartMaxValue(call.data) > 0
     /\ \A l \in DOMAIN call.data : call.data[l] >= 0
     /\ call.width >= ChartMaxLabelLen(call.data) + labelSpacing)
        => LET track == call.width - ChartMaxLabelLen(call.data) - labelSpacing
           IN  \E order \in Perms(DOMAIN call.data) :
                  result = Ok(JoinLines([i \in DOMAIN order |->
                      ChartLineText(order[i], ChartMaxLabelLen(call.data),
                                    (call.data[order[i]] * track)
                                        \div ChartMaxValue(call.data),
                                    track, call.data[order[i]], call.opts)]))

----------------------------------------------------------------------------
(* Claims about TableWithOptions, checked under SpecTable.                 *)

TableCalled == call.op = "TableWithOptions" /\ calls = 1

\* The cells of a rendered row: what stands between its vertical bars.
RowCells(line) ==
    LET parts == Split(line, LightVertical)
    IN  SubSeq(parts, 2, Len(parts) - 1)

\* The width the claim gives column i: the longest of header i and of the
\* cells i of the rows that have one.
ClaimedColWidth(headers, rows, i) ==
    MaxOf({GoLen(headers[i])}
          \cup {GoLen(rows[r][i]) : r \in {q \in DOMAIN rows : i <= Len(rows[q])}})

\* text between two spaces, right-padded to width
PaddedCell(text, width) ==
    <<" ">> \o text \o Repeat(" ", width - GoLen(text)) \o <<" ">>

\* C10: no call reads a column out of range; in the table of a non-empty
\* header list, header i and cell i of every row are right-padded to the
\* width of column i, which is the longest of header i and the cells i of
\* the rows that have one; a row renders min(its cells, the headers) cells.
C10_CellsMatchColumnsByIndex ==
    TableCalled =>
        /\ result.kind = "ok"
        /\ Len(call.headers) > 0 =>
            LET lines == Split(result.out, "\n")
                width(i) == ClaimedColWidth(call.headers, call.rows, i)
            IN  /\ Len(lines) = 2 + Len(call.rows)
                /\ RowCells(lines[1]) =
                       [i \in DOMAIN call.headers |->
                           PaddedCell(call.headers[i], width(i))]
                /\ \A r \in DOMAIN call.rows :
                       RowCells(lines[2 + r]) =
                           [i \in 1..Min(Len(call.rows[r]), Len(call.headers)) |->
                               PaddedCell(call.rows[r][i], width(i))]

\* The separator the claim describes: a run of width + 2 rules for each
\* column, joined by crosses between the two end pieces.
ClaimedSeparator(widths) ==
    <<LightVerticalRight>>
        \o Flatten([i \in DOMAIN widths |->
                       (IF i > 1 THEN <<LightCross>> ELSE <<>>)
                           \o Repeat(LightHorizontal, widths[i] + 2)])
        \o <<LightVerticalLeft>>

IsASCII(text) == GoLen(text) = Len(text)

\* What C11 says of the lines of a table, but for the glyph counts of the
\* header line and the separator line.
TableLinesAsClaimed ==
    LET lines == Split(result.out, "\n")
        widths == [i \in DOMAIN call.headers |->
                      ClaimedColWidth(call.headers, call.rows, i)]
    IN  /\ Len(lines) = 2 + Len(call.rows)
        /\ RowCells(lines[1]) =
               [i \in DOMAIN call.headers |-> PaddedCell(call.headers[i], widths[i])]
        /\ lines[2] = ClaimedSeparator(widths)
        /\ \A r \in DOMAIN call.rows :
               \A i \in 1..Min(Len(call.rows[r]), Len(call.headers)) :
                   RowCells(lines[2 + r])[i] = PaddedCell(call.rows[r][i], widths[i])

\* C11 as stated: a table with headers has 2 + len(rows) lines, the header
\* row, the separator (a run of columnWidth + 2 rules per column, joined by
\* crosses between the end pieces), then the rows in input order, and the
\* header line has as many glyphs as the separator line; an empty header
\* list gives the empty string.
C11_HeaderAndSeparatorSameGlyphs ==
    TableCalled =>
        /\ result.kind = "ok"
        /\ IF Len(call.headers) = 0 THEN result.out = <<>>
           ELSE /\ TableLinesAsClaimed
                /\ LET lines == Split(result.out, "\n")
                   IN  Len(lines[1]) = Len(lines[2])

\* C11 amended: the same, with the column widths counted in bytes, and the
\* header line and the separator line having the same number of glyphs
\* when every header is ASCII.
C11_LinesOfTable ==
    TableCalled =>
        /\ result.kind = "ok"
        /\ IF Len(call.headers) = 0 THEN result.out = <<>>
           ELSE /\ TableLinesAsClaimed
                /\ (\A i \in DOMAIN call.headers : IsASCII(call.headers[i]))
                       => LET lines == Split(result.out, "\n")
                          IN  Len(lines[1]) = Len(lines[2])

\* C11 witness: a table of two ASCII headers and two rows was rendered, a
\* cell of five bytes widening the column of a header of three bytes.
C11_Witness ==
    /\ TableCalled /\ result.kind = "ok"
    /\ Len(call.headers) = 2 /\ Len(call.rows) = 2
    /\ \A i \in DOMAIN call.headers : IsASCII(call.headers[i])
    /\ \E i \in DOMAIN call.headers :
           GoLen(call.headers[i]) < ClaimedColWidth(call.headers, call.rows, i)

\* C10 witness: a table with one row shorter and one row longer than the
\* header list was rendered.
C10_Witness ==
    /\ TableCalled
    /\ result.kind = "ok" /\ result.out # <<>>
    /\ \E r \in DOMAIN call.rows : Len(call.rows[r]) < Len(call.headers)
    /\ \E r \in DOMAIN call.rows : Len(call.rows[r]) > Len(call.headers)

----------------------------------------------------------------------------
(* Claims about BoxWithOptions, checked under SpecBox.                     *)

BoxCalled == call.op = "BoxWithOptions" /\ calls = 1

ContentLines == Split(call.content, "\n")
LongestContentLine == MaxOf({0} \cup {GoLen(ContentLines[k]) : k \in DOMAIN ContentLines})
OutputLines == Split(result.out, "\n")

\* left corner, width + 2 rules, right corner
ClaimedBorder(left, rule, right, width) ==
    <<left>> \o Repeat(rule, width + 2) \o <<right>>

\* bar, space, the text, some spaces, space, bar
IsRowOf(row, text, bar) ==
    \E pad \in 0..Len(row) :
        row = <<bar, " ">> \o text \o Repeat(" ", pad) \o <<" ", bar>>

\* the text between bars, right-padded to width bytes
ClaimedRow(text, width, bar) ==
    <<bar, " ">> \o text \o Repeat(" ", width - GoLen(text)) \o <<" ", bar>>

SameGlyphCount(lines) == \A j, k \in DOMAIN lines : Len(lines[j]) = Len(lines[k])

\* C12 as stated: with an empty title the box has a top and a bottom border
\* of length(longest content line) + 2 light rules between the corners, one
\* row per content line in order, and every row has as many glyphs as the
\* borders.
C12_SimpleBoxRowsSameGlyphs ==
    (BoxCalled /\ call.title = <<>>) =>
        /\ result.kind = "ok"
        /\ Len(OutputLines) = Len(ContentLines) + 2
        /\ OutputLines[1] = ClaimedBorder(LightDownRight, LightHorizontal,
                                          LightDownLeft, LongestContentLine)
        /\ OutputLines[Len(OutputLines)] =
               ClaimedBorder(LightUpRight, LightHorizontal, LightUpLeft,
                             LongestContentLine)
        /\ \A k \in DOMAIN ContentLines :
               IsRowOf(OutputLines[k + 1], ContentLines[k], LightVertical)
        /\ SameGlyphCount(OutputLines)

\* C12 amended: the same, the longest line and the padding being counted in
\* bytes, and the rows having as many glyphs as the borders when the
\* content is ASCII.
C12_SimpleBox ==
    (BoxCalled /\ call.title = <<>>) =>
        /\ result.kind = "ok"
        /\ Len(OutputLines) = Len(ContentLines) + 2
        /\ OutputLines[1] = ClaimedBorder(LightDownRight, LightHorizontal,
                                          LightDownLeft, LongestContentLine)
        /\ OutputLines[Len(OutputLines)] =
               ClaimedBorder(LightUpRight, LightHorizontal, LightUpLeft,
                             LongestContentLine)
        /\ \A k \in DOMAIN ContentLines :
               OutputLines[k + 1] =
                   ClaimedRow(ContentLines[k], LongestContentLine, LightVertical)
        /\ IsASCII(call.content) => SameGlyphCount(OutputLines)

\* C12 witness: a box without title around ASCII lines of different
\* lengths.
C12_Witness ==
    /\ BoxCalled /\ call.title = <<>> /\ result.kind = "ok"
    /\ IsASCII(call.content)
    /\ \E j, k \in DOMAIN ContentLines : Len(ContentLines[j]) > Len(ContentLines[k]) + 1

\* The interior width C13 gives a titled box.
TitledWidth == Max(LongestContentLine, GoLen(call.title) + 2)

\* C13 as stated: with a non-empty title the output is the top border, the
\* title row, the separator row, one row per content line and the bottom
\* border, drawn double with an interior of max(longest content line,
\* title length + 2), and all these lines have the same number of glyphs.
C13_TitledBoxLinesSameGlyphs ==
    (BoxCalled /\ call.title # <<>>) =>
        /\ result.kind = "ok"
        /\ Len(OutputLines) = Len(ContentLines) + 4
        /\ OutputLines[1] = ClaimedBorder(DoubleDownRight, DoubleHorizontal,
                                          DoubleDownLeft, TitledWidth)
        /\ IsRowOf(OutputLines[2], call.title, DoubleVertical)
        /\ OutputLines[3] = ClaimedBorder(DoubleVerticalRight, DoubleHorizontal,
                                          DoubleVerticalLeft, TitledWidth)
        /\ \A k \in DOMAIN ContentLines :
               IsRowOf(OutputLines[k + 3], ContentLines[k], DoubleVertical)
        /\ OutputLines[Len(OutputLines)] =
               ClaimedBorder(DoubleUpRight, DoubleHorizontal, DoubleUpLeft, TitledWidth)
        /\ SameGlyphCount(OutputLines)

\* C13 amended: the same for a title without line break, the lengths and
\* the padding being counted in bytes, and the lines having the same number
\* of glyphs when the title and the content are ASCII.
C13_TitledBox ==
    (BoxCalled /\ call.title # <<>> /\ Count(call.title, "\n") = 0) =>
        /\ result.kind = "ok"
        /\ Len(OutputLines) = Len(ContentLines) + 4
        /\ OutputLines[1] = ClaimedBorder(DoubleDownRight, DoubleHorizontal,
                                          DoubleDownLeft, TitledWidth)
        /\ OutputLines[2] = ClaimedRow(call.title, TitledWidth, DoubleVertical)
        /\ OutputLines[3] = ClaimedBorder(DoubleVerticalRight, DoubleHorizontal,
                                          DoubleVerticalLeft, TitledWidth)
        /\ \A k \in DOMAIN ContentLines :
               OutputLines[k + 3] =
                   ClaimedRow(ContentLines[k], TitledWidth, DoubleVertical)
        /\ OutputLines[Len(OutputLines)] =
               ClaimedBorder(DoubleUpRight, DoubleHorizontal, DoubleUpLeft, TitledWidth)
        /\ (IsASCII(call.title) /\ IsASCII(call.content))
               => SameGlyphCount(OutputLines)

\* C13 witness: a titled box of ASCII text whose content has two lines, one
\* of them longer than the title and its padding.
C13_Witness ==
    /\ BoxCalled /\ result.kind = "ok"
    /\ call.title # <<>> /\ Count(call.title, "\n") = 0
    /\ IsASCII(call.title) /\ IsASCII(call.content)
    /\ Len(ContentLines) = 2
    /\ LongestContentLine > GoLen(call.title) + 2

----------------------------------------------------------------------------
(* Claims about TreeViewWithOptions, checked under SpecTree.               *)

TreeCalled == call.op = "TreeViewWithOptions" /\ calls = 1

\* The ancestors of node i from the outermost to its parent.
AncestorPath(parent, i) == Sorted(Ancestors(parent, i))

\* The line the claim gives node i: for each ancestor the continuation of
\* its position, then the branch of the node's own position, the label and
\* the value.
ClaimedTreeLine(parent, values, i) ==
    LET path == AncestorPath(parent, i)
    IN  Flatten([k \in DOMAIN path |->
                    IF LastSibling(parent, path[k]) THEN <<" ", " ", " ">>
                    ELSE <<LightVertical, " ", " ">>])
        \o (IF LastSibling(parent, i) THEN <<LightUpRight, LightHorizontal, " ">>
            ELSE <<LightVerticalRight, LightHorizontal, " ">>)
        \o NodeLabel(i)
        \o (IF NodeValue(values, i) # <<>> THEN <<":", " ">> \o NodeValue(values, i)
            ELSE <<>>)

\* C14: the tree has one line for each node, in pre-order, with the branch
\* and continuation glyphs of the node's position among its siblings,
\* whatever the Last fields say, then the label and ': value' for a value
\* that is not empty.
C14_GlyphsFromPosition ==
    TreeCalled =>
        /\ result.kind = "ok"
        /\ IF DOMAIN call.parent = {} THEN result.out = <<>>
           ELSE LET lines == Split(result.out, "\n")
                IN  /\ Len(lines) = Len(call.parent)
                    /\ \A i \in DOMAIN call.parent :
                           lines[i] = ClaimedTreeLine(call.parent, call.values, i)

\* C14 witness: a tree of three levels was drawn, with a node that is not
\* the last of its siblings and has children, and Last fields that
\* contradict the positions.
C14_Witness ==
    /\ TreeCalled /\ result.kind = "ok"
    /\ call.lasts = "inverted"
    /\ \E i \in DOMAIN call.parent :
           /\ ~LastSibling(call.parent, i)
           /\ \E j \in DOMAIN call.parent :
                  call.parent[j] = i /\ \E k \in DOMAIN call.parent : call.parent[k] = j

----------------------------------------------------------------------------
(* Claims about CreateConfidenceBar, checked under SpecConfidence.         *)

ConfidenceCalled == call.op = "CreateConfidenceBar" /\ calls = 1

\* min(10, max(0, floor(confidence * 10)))
ClaimedFilledCells(c) ==
    IF c.kind = "ratio" THEN Min(10, Max(0, (10 * c.n) \div c.d))
    ELSE IF c.sign = 1 THEN 10 ELSE 0

\* s without the glyphs of the set gs
Without(s, gs) == SelectSeq(s, LAMBDA g : g \notin gs)

\* C15: the bar has exactly 10 cells, the first
\* min(10, max(0, floor(confidence * 10))) filled and the rest empty; a
\* negative confidence gives no filled cell and a confidence above 1 ten.
C15_TenCellsClamped ==
    ConfidenceCalled =>
        /\ result.kind = "ok"
        /\ \E pair \in {<<FullBlock, LightShade>>, <<"#", "-">>} :
               Without(result.out, {"[", "]"}) =
                   Repeat(pair[1], ClaimedFilledCells(call.confidence))
                   \o Repeat(pair[2], 10 - ClaimedFilledCells(call.confidence))

\* C16: a bar drawn with the block glyphs has no brackets and a bar drawn
\* with '#' and '-' is wrapped in '[' and ']', for every opts.Emoji and
\* every environment.
C16_TwoOutputModes ==
    ConfidenceCalled =>
        /\ result.kind = "ok"
        /\ (\E i \in DOMAIN result.out : result.out[i] \in {FullBlock, LightShade})
               => Without(result.out, {"[", "]"}) = result.out
        /\ (\E i \in DOMAIN result.out : result.out[i] \in {"#", "-"})
               => /\ Head(result.out) = "["
                  /\ result.out[Len(result.out)] = "]"

----------------------------------------------------------------------------
(* Claims about GetEmoji and GetSymbol, checked under SpecSymbol.          *)

SymbolCalled == call.op \in {"GetEmoji", "GetSymbol"} /\ calls = 1

\* C17: GetSymbol/GetEmoji returns a string that is not empty: for a key of
\* the symbol table the emoji when opts.Emoji is true and the terminal
\* supports emoji, and the ASCII fallback otherwise; for any other key
\* "[?]", whatever the options.
C17_SymbolOrFallback ==
    SymbolCalled =>
        /\ result.kind = "ok"
        /\ result.out # <<>>
        /\ call.key \in DOMAIN getEmojiMap =>
               IF call.opts.Emoji /\ supportsEmoji(env)
               THEN /\ result.out = getEmojiMap[call.key][1]
                    /\ ~IsASCII(result.out)
               ELSE /\ result.out = getEmojiMap[call.key][2]
                    /\ IsASCII(result.out)
        /\ call.key \notin DOMAIN getEmojiMap => result.out = <<"[", "?", "]">>

\* emoji asked for on a terminal without emoji support: the fallback
C17_Witness ==
    /\ SymbolCalled
    /\ call.key = "success"
    /\ call.opts.Emoji
    /\ ~supportsEmoji(env)
    /\ result = Ok(<<"[", "O", "K", "]">>)

----------------------------------------------------------------------------
(* Claims about the style helpers, checked under SpecStyle.                *)

StyleCalled == call.op \in {"Colorize", "ColorizeWithProfile", "Stylize"} \cup TextHelpers
                   /\ calls = 1

\* C18: Colorize returns color + text + Reset when opts.Color is true and
\* the terminal supports color, and the text unchanged otherwise; every
\* style helper returns its text unchanged when opts.Color is false, and
\* none adds anything to the text unless opts.Color is true and the
\* terminal supports color.
C18_ColorOnlyWhenEnabledAndSupported ==
    StyleCalled =>
        /\ result.kind = "ok"
        /\ call.op = "Colorize" =>
               result.out = IF call.opts.Color /\ supportsColor(env)
                            THEN call.color \o call.text \o <<Reset>>
                            ELSE call.text
        /\ ~call.opts.Color => result.out = call.text
        /\ result.out # call.text => call.opts.Color /\ supportsColor(env)

C18_Witness ==
    /\ StyleCalled
    /\ call.op = "Colorize"
    /\ call.opts.Color
    /\ supportsColor(env)
    /\ call.color = <<Red>>
    /\ result = Ok(<<Red, "o", "k", Reset>>)

\* C25: whenever NO_COLOR is not empty supportsColor returns false, whatever
\* TERM and FORCE_COLOR are, and Colorize and every style helper return
\* their text unchanged.
C25_NoColorOverrides ==
    (StyleCalled /\ env.NO_COLOR # <<>>) =>
        /\ ~supportsColor(env)
        /\ result.out = call.text

----------------------------------------------------------------------------
(* Claims about Format, checked under SpecFormat.                          *)

\* Format returned, after formatting one string: the value of the only
\* entry of the map, or the Name of a Node that points to no other Node.
FormattedText ==
    IF call.data.t = "map" THEN call.data.m[<<"k">>].s ELSE call.heap[call.data.addr].Name

OneTextFormatted ==
    /\ call.op = "Format" /\ calls >= 1 /\ result.kind = "ok"
    /\ \/ /\ call.data.t = "map"
          /\ DOMAIN call.data.m = {<<"k">>}
          /\ call.data.m[<<"k">>].t = "string"
       \/ /\ call.data.t = "ptr" /\ call.data.addr # 0
          /\ call.heap[call.data.addr].Next = 0

\* the text between the first and the last quote of out
BetweenQuotes(out) ==
    LET qs == {i \in DOMAIN out : out[i] = "\""}
        first == CHOOSE i \in qs : \A j \in qs : i <= j
        last == CHOOSE i \in qs : \A j \in qs : j <= i
    IN  SubSeq(out, first + 1, last - 1)

\* the glyphs of text as %q shows them
Shown(text) == BetweenQuotes(Quote(UTF8(text)))

\* C19: a string field or map value of more than 50 characters is shown as
\* its first 47 characters and "...", one of 50 characters or fewer is
\* shown in full, and the text between the quotes is never longer than 50
\* characters.
C19_CutAfterFiftyCharacters ==
    OneTextFormatted =>
        /\ BetweenQuotes(result.out) =
               IF Len(FormattedText) > 50
               THEN Shown(SubSeq(FormattedText, 1, 47)) \o <<".", ".", ".">>
               ELSE Shown(FormattedText)
        /\ Len(BetweenQuotes(result.out)) <= 50

\* Format returned, after formatting a Node.
StructFormatted ==
    /\ call.op = "Format" /\ calls >= 1 /\ result.kind = "ok"
    /\ call.data.t = "ptr" /\ call.data.addr # 0

\* the number of Nodes from address a along Next, at most n
RECURSIVE ChainLength(_, _, _)
ChainLength(heap, a, n) ==
    IF a = 0 \/ n = 0 THEN 0 ELSE 1 + ChainLength(heap, heap[a].Next, n - 1)

StartsWith(line, p) == Len(line) >= Len(p) /\ SubSeq(line, 1, Len(p)) = p

\* the names of the exported fields of Node, in declaration order
ExportedNames ==
    LET fields == StructFields(call.heap, call.data.addr)
        exported == SelectSeq(fields, LAMBDA f : f.Exported)
    IN  [i \in DOMAIN exported |-> exported[i].Name]

\* the lines of the tree, after the three lines of the header
ItemLines ==
    LET lines == Split(result.out, "\n")
    IN  SubSeq(lines, 4, Len(lines))

\* C20: the tree of a record has one item for each exported field, in the
\* order of their declaration, and none for an unexported field; the item
\* of the last exported field is the one drawn with the last-sibling
\* glyphs, the final declared field of Node being unexported.
C20_OneItemPerExportedField ==
    StructFormatted =>
        LET per == Len(ExportedNames)
            nodes == ChainLength(call.heap, call.data.addr, Len(call.heap))
        IN  /\ Len(ItemLines) = per * nodes
            /\ \A j \in DOMAIN ItemLines :
                   LET depth == (j - 1) \div per
                       f == ((j - 1) % per) + 1
                       branch == IF f = per THEN LightUpRight ELSE LightVerticalRight
                   IN  /\ StartsWith(ItemLines[j],
                              Repeat(" ", 3 * depth)
                              \o <<branch, LightHorizontal, " ">>
                              \o ExportedNames[f])
                       /\ Count(ItemLines[j], LightUpRight) = (IF f = per THEN 1 ELSE 0)
            /\ ~Occurs(<<"v", "i", "s", "i", "t", "s">>, result.out)

\* a Node whose Next points to a second Node: the Next items are the last
C20_Witness ==
    /\ StructFormatted
    /\ call.heap[call.data.addr].Next # 0
    /\ ~StructFields(call.heap, call.data.addr)[NumField].Exported
    /\ Len(ItemLines) = 6
    /\ StartsWith(ItemLines[3], <<LightUpRight, LightHorizontal, " ", "N", "e", "x", "t">>)
    /\ StartsWith(ItemLines[6],
           <<" ", " ", " ", LightUpRight, LightHorizontal, " ", "N", "e", "x", "t">>)

\* the Node at depth d of the chain that starts at address a
RECURSIVE ChainNode(_, _, _)
ChainNode(heap, a, d) == IF d = 0 THEN a ELSE ChainNode(heap, heap[a].Next, d - 1)

FormatReturned == call.op = "Format" /\ calls >= 1 /\ result.kind \in {"ok", "error"}

\* C21: Format returns no bytes and no error for nil data; it returns an
\* error only for data that is no map, slice, string or (pointer to a)
\* struct and that json.MarshalIndent cannot encode, the error starting
\* with "failed to format data" and coming with no bytes; when the JSON
\* fallback is used the output is the serialization alone.
C21_ErrorOnlyWhenFallbackFails ==
    FormatReturned =>
        /\ call.data = NilValue => result = Ok(<<>>)
        /\ result.kind = "error" <=>
               (call.data.t \notin {"nil", "map", "slice", "string", "ptr"}
                   /\ MarshalFails(call.data))
        /\ result.kind = "error" =>
               /\ result.out = <<>>
               /\ StartsWith(result.err,
                      <<"f", "a", "i", "l", "e", "d", " ", "t", "o", " ",
                        "f", "o", "r", "m", "a", "t", " ", "d", "a", "t", "a">>)
        /\ (result.kind = "ok" /\ call.data.t \in {"int", "bool"}) =>
               result.out = MarshalIndent(call.data)

\* the fallback failed on a chan
C21_Witness ==
    /\ FormatReturned
    /\ call.data = ChanValue
    /\ result.kind = "error"
    /\ result.out = <<>>

----------------------------------------------------------------------------
(* Claims about sequences of calls, checked under SpecCalls.               *)

\* C22: no operation of the library changes what the caller passed in: the
\* options objects that exist before the call, the header and row slices,
\* the data map, the TreeItem slice with its Last fields and the formatted
\* value are the same after it.
C22_InputsUnchanged ==
    [][call'.op # "caller" =>
          /\ \A a \in DOMAIN objects.options :
                 /\ a \in DOMAIN objects'.options
                 /\ objects'.options[a] = objects.options[a]
          /\ objects'.headers = objects.headers
          /\ objects'.rows = objects.rows
          /\ objects'.data = objects.data
          /\ objects'.items = objects.items
          /\ objects'.value = objects.value]_vars

\* NewTerminal(false) wrote Color to its own object, while the formatter of
\* an earlier NewTerminalWithOptions held the caller's
C22_Witness ==
    /\ call = [op |-> "NewTerminal", color |-> FALSE]
    /\ objects.formatter # 1
    /\ ~objects.options[objects.formatter].Color
    /\ objects.options[1].Color
    /\ ~objects.items[1].Last

\* C23: every call of DefaultOptions returns a new object with Color true,
\* Emoji true, Width 80, Compact false and ShowIcons true, whatever was
\* called before and whatever the caller wrote to the objects returned
\* earlier.
C23_DefaultOptionsFresh ==
    [][call'.op = "DefaultOptions" =>
          /\ result'.addr \notin DOMAIN objects.options
          /\ objects'.options[result'.addr] =
                 [Color |-> TRUE, Emoji |-> TRUE, Width |-> 80,
                  Compact |-> FALSE, ShowIcons |-> TRUE]]_vars

\* DefaultOptions called after the caller changed the object that an
\* earlier DefaultOptions or NewTerminal returned
C23_Witness ==
    /\ call = [op |-> "DefaultOptions"]
    /\ result.addr = 3
    /\ objects.options[2] # DefaultOptions
    /\ ~objects.options[2].Emoji
    /\ objects.options[3].Color /\ objects.options[3].Emoji

\* C3: Format terminates on every input, a struct that reaches itself
\* through a pointer field included: the recursion into nested structs
\* never goes deeper than 64 frames, and the call does not run out of
\* stack.
C3_RecursionBoundedByGuard ==
    call.op = "Format" => (Len(stack) <= 64 /\ result # Fatal)

\* C5: formatting the same value with the same options twice yields the
\* same glyphs, for every input shape, maps with two or more keys (at the
\* top, nested, or inside a slice) included.
C5_FormatIdempotent ==
    (call.op = "Format" /\ calls >= 2) => result = prev

=============================================================================
